---- MODULE Spec2Model ----
(***************************************************************************)
(* Model of the addon client: the Manager (registry, version arbitration,  *)
(* load with its dynamic set of pending jobs and final requirement sort),  *)
(* the parts of BaseAddonClass / AddonClass the Manager uses, and the      *)
(* endpoint URL helpers.                                                   *)
(*                                                                         *)
(* Addon instances are JavaScript objects that are shared by reference     *)
(* between the registry, the load's `available` table and running jobs;    *)
(* they live in `heap` and are named by their index. An instance keeps the *)
(* properties object it was constructed with (createAddon returns its      *)
(* argument), so instances can share one properties object, which is       *)
(* mutated in place: the field p names the properties object.              *)
(***************************************************************************)
EXTENDS Integers, Sequences, FiniteSets, TLC

VARIABLES
  heap,        \* the addon instances alive: Seq of [id, ver, eps, reqs, eng, repo, imm, path, p]
  addons,      \* Manager.addons: Seq of heap indices
  pc,          \* "idle" | "loading" | "rejected" (load threw, its jobs still run)
  cfg,         \* the running/last load's arguments:
               \* [discover, maxDepth, refresh, inputs, available]
  available,   \* load's `available` table, in key insertion order: Seq of heap indices
  ignoreUrls,  \* load's `ignore` set, the endpoint strings in it
  ignoreIds,   \* load's `ignore` set, the addon ids in it
  rootAddons,  \* load's `rootAddons`: rootIndex -> addon id ("" when unset)
  rootIndex,   \* load's `rootIndex` counter
  jobs,        \* load's `promises`: the pending jobs, Seq of job records
  errors,      \* contexts handed to onError during the running/last load
  settled,     \* the last load's promise: "" (none or pending) | "resolved" |
               \* the message of the error it rejected with
  failed,      \* contexts of the network calls that failed during the running/last load
  tick,        \* flips (0, 1) whenever a pending network call returns
  startIds,    \* ids in the registry when the running/last load started
  nOps,        \* number of registry calls (addAddonProps, ..., clear) made so far
  nLoads,      \* number of calls of load made so far
  race,        \* one call of analyzeEndpoints: its probes, clock and result
  call,        \* one call of AddonClass.call for an action other than "addon"
  probe,       \* one call of EndpointFetcher.fetch: its redirect loop and timer
  validation,  \* one call of validateAction: its payload objects and result
  failover     \* two concurrent calls of AddonClass.call on one addon: its endpoints, their iterators

vars == <<heap, addons, pc, cfg, available, ignoreUrls, ignoreIds, rootAddons,
          rootIndex, jobs, errors, settled, failed, tick, startIds, nOps, nLoads,
          race, call, probe, validation, failover>>

----------------------------------------------------------------------------
(* Bounds of the model *)

\* requirePath is kept up to this many ids; longer paths keep their first ids
MaxPathLen == 3
\* depth of synchronous recursion after which the runtime raises RangeError
StackLimit == 8
\* number of registry calls (addAddonProps, addAddonClass, removeAddon, clear)
\* before the first load
MaxOps == 2
\* number of calls of load; every load after the first is a reload (no inputs)
MaxLoads == 1
\* longest time a probe takes to answer or fail, in clock ticks
MaxLatency == 5
\* options.endpointTestTimeout, in clock ticks: a probe that has not answered
\* by then fails with "Timeout"
EndpointTestTimeout == 4
\* largest loadNextTimeout, in clock ticks
MaxTimeout == 2
\* number of task requests the remote sends before its final response
MaxTasks == 2

----------------------------------------------------------------------------
(* Small sequence helpers *)

Min(a, b) == IF a < b THEN a ELSE b
Max(a, b) == IF a > b THEN a ELSE b

Range(s) == {s[i] : i \in 1..Len(s)}

Includes(s, x) == \E i \in 1..Len(s) : s[i] = x

\* Array.prototype.indexOf / findIndex, 1-based, 0 when absent
IndexOf(s, x) ==
  IF Includes(s, x) THEN CHOOSE i \in 1..Len(s) : s[i] = x /\ \A j \in 1..(i-1) : s[j] # x
  ELSE 0

RemoveAt(s, i) == SubSeq(s, 1, i-1) \o SubSeq(s, i+1, Len(s))

InsertAt(s, i, x) == SubSeq(s, 1, i-1) \o <<x>> \o SubSeq(s, i, Len(s))

\* lodash uniq: first occurrences, in order
RECURSIVE Uniq(_)
Uniq(s) ==
  IF s = <<>> THEN <<>>
  ELSE LET r == Uniq(SubSeq(s, 1, Len(s)-1))
       IN IF Includes(r, s[Len(s)]) THEN r ELSE Append(r, s[Len(s)])

RECURSIVE Flatten(_)
Flatten(ss) == IF ss = <<>> THEN <<>> ELSE Head(ss) \o Flatten(Tail(ss))

----------------------------------------------------------------------------
(* URLs.  A URL is the sequence <<protocol, host, path segment, ...>>; an  *)
(* addon descriptor file (mediahubmx.json, mediaurl.json) is a last path   *)
(* segment.                                                                *)

addonEngines == <<"mediahubmx", "mediaurl">>

EngineFile(engine) == IF engine = "mediahubmx" THEN "mediahubmx.json" ELSE "mediaurl.json"

IsAddonFile(seg) == seg \in {"mediahubmx.json", "mediaurl.json"}

\* url.replace(/\/(mediahubmx|mediaurl)[^/]*\.json$/, "").replace(/\/$/, "")
stripAddonUrl(url) ==
  IF Len(url) > 2 /\ IsAddonFile(url[Len(url)]) THEN SubSeq(url, 1, Len(url) - 1) ELSE url

\* A reference as written in a descriptor: an absolute URL, a rooted path
\* ("/x") or a relative path ("x").
AbsRef(url) == [abs |-> TRUE, rooted |-> FALSE, segs |-> url]
RootedRef(segs) == [abs |-> FALSE, rooted |-> TRUE, segs |-> segs]
RelRef(segs) == [abs |-> FALSE, rooted |-> FALSE, segs |-> segs]

\* new Url(ref, base): an absolute reference stands, a rooted path replaces
\* the base's path, a relative path replaces the base's last segment
ResolveUrl(ref, base) ==
  IF ref.abs THEN ref.segs
  ELSE IF ref.rooted THEN SubSeq(base, 1, 2) \o ref.segs
  ELSE SubSeq(base, 1, Max(2, Len(base) - 1)) \o ref.segs

\* getCleanAddonUrl(url) and getCleanAddonUrl(url, baseUrl), without action
getCleanAddonUrl(url) == stripAddonUrl(url)
getCleanAddonUrlBase(ref, baseUrl) == stripAddonUrl(ResolveUrl(ref, stripAddonUrl(baseUrl)))

\* getCleanAddonUrl(endpoint, undefined, {engine, action: "addon"})
ProbeUrl(endpoint, engine) == Append(stripAddonUrl(endpoint), EngineFile(engine))

----------------------------------------------------------------------------
(* Addon properties and instances *)

Props(id, ver, eps, reqs, repo) ==
  [id |-> id, ver |-> ver, eps |-> eps, reqs |-> reqs, eng |-> "", repo |-> repo]

NoProps == Props("", 0, <<>>, <<>>, FALSE)

PropsOf(a) ==
  [id |-> a.id, ver |-> a.ver, eps |-> a.eps, reqs |-> a.reqs, eng |-> a.eng, repo |-> a.repo]

\* variant of createAddon: the endpoints are left as they were given
createAddonKeep(props) == props

\* createAddon(addon): addon.endpoints = uniq(addon.endpoints.map(stripAddonUrl));
\* the object it was given is what it returns
createAddon(props) ==
  [props EXCEPT !.eps = Uniq([i \in 1..Len(props.eps) |-> stripAddonUrl(props.eps[i])])]

\* new AddonClass(props, infos) / a class whose isImmutable() is true;
\* p = 0 until the instance is put on the heap
NewInstance(props, requirePath, imm) ==
  LET c == createAddon(props)
  IN [id |-> c.id, ver |-> c.ver, eps |-> c.eps, reqs |-> c.reqs, eng |-> c.eng,
      repo |-> c.repo, imm |-> imm, path |-> requirePath, p |-> 0]

\* this.props.endpoints / this.props.engine of instance o become those of a:
\* every instance that holds the same properties object sees it
SetProps(h, o, a) ==
  [k \in 1..Len(h) |->
     IF h[k].p = h[o].p THEN [h[k] EXCEPT !.eps = a.eps, !.eng = a.eng] ELSE h[k]]

\* a name for a properties object that no instance of the heap holds
FreshProps(h) ==
  IF h = <<>> THEN 1 ELSE 1 + (CHOOSE m \in {h[k].p : k \in 1..Len(h)} : \A k \in 1..Len(h) : h[k].p <= m)

\* variant of isNewerThan: no version counts as newer
isNewerThanNever(a, version) == FALSE

\* semver.gt(this.props.version ?? "0.0.0", version ?? "0.0.0")
isNewerThan(a, version) == a.ver > version

\* variant of isImmutable: no addon counts as immutable
isImmutableNever(a) == FALSE

\* isImmutable(): false for AddonClass, true for a class that overrides it
isImmutable(a) == a.imm

getConvertedRequirements(a) ==
  [i \in 1..Len(a.reqs) |->
     IF a.reqs[i].abs THEN <<stripAddonUrl(a.reqs[i].segs)>>
     ELSE Uniq([k \in 1..Len(a.eps) |-> getCleanAddonUrlBase(a.reqs[i], a.eps[k])])]

matchesRequirement(a, req) == \E k \in 1..Len(a.eps) : Includes(req, a.eps[k])

\* the property keys a for...in loop over an array yields: "0", "1", ...
Digits == <<"0", "1", "2", "3", "4", "5", "6", "7", "8", "9">>
ArrayKeys(s) == {<<Digits[k]>> : k \in 1..Len(s)}

\* hasRequirement iterates `for (const endpoint in req.endpoints)`
hasRequirement(a, other) ==
  \E i \in 1..Len(a.reqs) :
    \E key \in ArrayKeys(getConvertedRequirements(a)[i]) : Includes(other.eps, key)

----------------------------------------------------------------------------
(* The network the client talks to: what the server at each base URL       *)
(* answers.  A base URL that is not listed does not answer (connection     *)
(* failure, timeout or 404).                                               *)

UA == <<"https", "h", "a">>
UB == <<"https", "h", "b">>
UC == <<"https", "h", "c">>
UD == <<"https", "h", "d">>
UX1 == <<"https", "h", "x1">>
UX2 == <<"https", "h", "x2">>
US == <<"https", "h", "s">>
UR == <<"https", "h", "r">>
UZ == <<"https", "h", "z">>
UE == <<"https", "h", "e">>
UG == <<"https", "h", "g">>
UGK == <<"https", "h", "g", "k">>

Served == {UA, UB, UC, UD, UX1, UX2, US, UR, UG, UGK}

AddonAnswer(engine, props, list) ==
  [type |-> "addon", eng |-> engine, props |-> props, addons |-> <<>>, list |-> list]
ServerAnswer(engine, refs) ==
  [type |-> "server", eng |-> engine, props |-> NoProps, addons |-> refs, list |-> <<>>]
NoAnswer == [type |-> "fail", eng |-> "", props |-> NoProps, addons |-> <<>>, list |-> <<>>]

\* a requires b; c and d require each other; x is served in two versions;
\* s is a server alias listing a and b; r is a legacy repository listing b;
\* e declares two endpoints, a mirror that does not answer (z), then itself;
\* g requires the path "/k", and k is served below g
Net(base) ==
  CASE base = UA -> AddonAnswer("mediahubmx", Props("a", 1, <<>>, <<AbsRef(UB)>>, FALSE), <<>>)
    [] base = UB -> AddonAnswer("mediaurl", Props("b", 1, <<>>, <<>>, FALSE), <<>>)
    [] base = UC -> AddonAnswer("mediahubmx", Props("c", 1, <<>>, <<AbsRef(UD)>>, FALSE), <<>>)
    [] base = UD -> AddonAnswer("mediahubmx", Props("d", 1, <<>>, <<AbsRef(UC)>>, FALSE), <<>>)
    [] base = UX1 -> AddonAnswer("mediahubmx", Props("x", 1, <<>>, <<>>, FALSE), <<>>)
    [] base = UX2 -> AddonAnswer("mediahubmx", Props("x", 2, <<>>, <<>>, FALSE), <<>>)
    [] base = US -> ServerAnswer("mediahubmx", <<RootedRef(<<"a">>), AbsRef(UB)>>)
    [] base = UE -> AddonAnswer("mediahubmx", Props("e", 1, <<UZ, UE>>, <<>>, FALSE), <<>>)
    [] base = UR -> AddonAnswer("mediahubmx", Props("r", 1, <<>>, <<>>, TRUE), <<<<AbsRef(UB)>>>>)
    [] base = UG -> AddonAnswer("mediahubmx", Props("g", 1, <<>>, <<RootedRef(<<"k">>)>>, FALSE), <<>>)
    [] base = UGK -> AddonAnswer("mediahubmx", Props("k", 1, <<>>, <<>>, FALSE), <<>>)
    [] OTHER -> NoAnswer

\* what a POST to an addon descriptor URL returns
FetchProbe(url) ==
  LET a == Net(stripAddonUrl(url))
  IN IF IsAddonFile(url[Len(url)]) /\ a.type # "fail" /\ EngineFile(a.eng) = url[Len(url)]
     THEN a ELSE NoAnswer

\* An AddonResponseResult; handleResponse returns a list of them or throws
ResponseResult(isServer, engine, endpoints, props) ==
  [isServer |-> isServer, engine |-> engine, endpoints |-> endpoints, props |-> props]

Threw == [ok |-> FALSE, list |-> <<>>]
Returned(list) == [ok |-> TRUE, list |-> list]

handleResponse(engine, url, answer, allowServerResponses) ==
  IF answer.type = "server" THEN
    IF ~allowServerResponses THEN Threw
    ELSE LET baseUrl == Append(stripAddonUrl(url), "server")
         IN Returned([i \in 1..Len(answer.addons) |->
              ResponseResult(TRUE, engine,
                             <<getCleanAddonUrlBase(answer.addons[i], baseUrl)>>, NoProps)])
  ELSE IF answer.type = "addon" THEN
    LET cleanUrl == getCleanAddonUrl(url)
        declared == [i \in 1..Len(answer.props.eps) |-> getCleanAddonUrl(answer.props.eps[i])]
        eps == IF Includes(declared, cleanUrl) THEN declared ELSE <<cleanUrl>> \o declared
    IN Returned(<<ResponseResult(FALSE, engine, <<cleanUrl>>,
                                 [answer.props EXCEPT !.eps = eps])>>)
  ELSE Threw

\* The probe URLs analyzeEndpoints queues: one per endpoint and dialect
AnalyzeTodo(endpoints, engine) ==
  LET engines == IF engine = "" THEN addonEngines ELSE <<engine>>
  IN Uniq(Flatten([i \in 1..Len(endpoints) |->
                    [k \in 1..Len(engines) |->
                       [url |-> ProbeUrl(endpoints[i], engines[k]), engine |-> engines[k]]]]))

\* analyzeEndpoints: the result of whichever probe succeeds first.  Probes
\* race, so any probe that can succeed may be the one; null (Threw) is
\* returned only when none can.
analyzeEndpoints(endpoints, allowServerResponses, engine) ==
  LET todo == AnalyzeTodo(endpoints, engine)
      outcome(i) == handleResponse(todo[i].engine, todo[i].url, FetchProbe(todo[i].url),
                                   allowServerResponses)
      won == {outcome(i) : i \in {k \in 1..Len(todo) : outcome(k).ok}}
  IN IF won = {} THEN {Threw} ELSE won

----------------------------------------------------------------------------
(* The Manager's synchronous code.  It runs on a record `st` holding the   *)
(* state it reads and writes:                                              *)
(*   heap, addons, available, ignoreUrls, ignoreIds, rootAddons, jobs,     *)
(*   errors  as the variables of the same names,                           *)
(*   cfg     the load's arguments,                                         *)
(*   exc     the exception being thrown ("" when none),                    *)
(*   ret     the heap index a function returned.                           *)

NoRoot == 0 - 1

\* requirePath, kept up to MaxPathLen ids
CapPath(path) == SubSeq(path, 1, Min(Len(path), MaxPathLen))

\* this.addons.findIndex((other) => other.props.id === id), 1-based
FindIndex(st, id) ==
  LET hit == {i \in 1..Len(st.addons) : st.heap[st.addons[i]].id = id}
  IN IF hit = {} THEN 0 ELSE CHOOSE i \in hit : \A j \in hit : i <= j

\* the position of id in `available`
FindAvailable(st, id) ==
  LET hit == {i \in 1..Len(st.available) : st.heap[st.available[i]].id = id}
  IN IF hit = {} THEN 0 ELSE CHOOSE i \in hit : \A j \in hit : i <= j

\* a new instance; it holds a new properties object unless it names one
Alloc(st, inst) ==
  [st EXCEPT !.heap = Append(@, IF inst.p = 0 THEN [inst EXCEPT !.p = FreshProps(st.heap)] ELSE inst),
             !.ret = Len(st.heap) + 1]

Throw(st, what) == [st EXCEPT !.exc = what]

Context(ctx, id, eps) == [ctx |-> ctx, id |-> id, eps |-> eps]

\* catch (error) { if (onError) onError(context, error); }
OnError(st, ctx, id, eps) ==
  [st EXCEPT !.exc = "", !.errors = @ \cup {Context(ctx, id, eps)}]

\* Array.prototype.splice(start, deleteCount, item): where `start` lands
SpliceStart(len, start) == IF start < 0 THEN Max(len + start, 0) ELSE Min(start, len)

\* Manager.createAddonClass(props, infos, additionalEndpoints), force = false.
\* `alias` is the heap index of the instance whose props object is passed
\* (0: a fresh object). `props` is that object or old.props; the endpoints
\* are assigned to it, and the instance constructed keeps it as its props.
createAddonClass(st, alias, fresh, requirePath, hasAdditional, additionalEndpoints) ==
  LET given == IF alias # 0 THEN PropsOf(st.heap[alias]) ELSE fresh
      i == FindIndex(st, given.id)
      old == IF i = 0 THEN 0 ELSE st.addons[i]
  IN IF old # 0 /\ isImmutable(st.heap[old]) THEN [st EXCEPT !.ret = old]
     ELSE
       LET useOld == old # 0 /\ isNewerThan(st.heap[old], given.ver)
           obj == IF useOld THEN old ELSE alias
           props == IF useOld THEN PropsOf(st.heap[old]) ELSE given
           eps1 == IF old # 0 THEN props.eps \o st.heap[old].eps ELSE props.eps
           eps2 == IF hasAdditional THEN additionalEndpoints \o eps1 ELSE eps1
           inst == NewInstance([props EXCEPT !.eps = eps2], requirePath, FALSE)
       IN IF obj = 0 THEN Alloc(st, inst)
          ELSE Alloc([st EXCEPT !.heap = SetProps(@, obj, inst)],
                     [inst EXCEPT !.p = st.heap[obj].p])

\* Manager.addAddonClass(addon, index); index = NoRoot stands for null
addAddonClass(st, o, index) ==
  LET i == FindIndex(st, st.heap[o].id)
      len == Len(st.addons)
  IN IF i = 0 THEN
       LET at == SpliceStart(len, IF index = NoRoot THEN len - 1 ELSE index)
       IN [st EXCEPT !.addons = InsertAt(@, at + 1, o)]
     ELSE IF index # NoRoot THEN
       LET rest == RemoveAt(st.addons, i)
       IN [st EXCEPT !.addons = InsertAt(rest, SpliceStart(Len(rest), index) + 1, o)]
     ELSE [st EXCEPT !.addons[i] = o]

\* available[addon.props.id] = addon, for the addon just returned; k is the
\* place of the id in `available`, 0 when it is new
SetAvailable(st, k) ==
  [st EXCEPT !.available = IF k = 0 THEN Append(@, st.ret) ELSE [@ EXCEPT ![k] = st.ret]]

\* load.addAvailable(props, requirePath, additionalEndpoints)
addAvailable(st, alias, fresh, requirePath, additionalEndpoints) ==
  LET given == IF alias # 0 THEN PropsOf(st.heap[alias]) ELSE fresh
      k == FindAvailable(st, given.id)
      av == IF k = 0 THEN 0 ELSE st.available[k]
  IN IF av # 0 /\ isNewerThan(st.heap[av], given.ver) THEN [st EXCEPT !.ret = av]
     ELSE SetAvailable(
            createAddonClass(st, alias, fresh, requirePath, TRUE,
                additionalEndpoints \o (IF av # 0 THEN st.heap[av].eps ELSE <<>>)),
            k)

Job(kind, o, eps, orig, eng, known, path, ri) ==
  [kind |-> kind, oid |-> o, eps |-> eps, orig |-> orig, eng |-> eng,
   known |-> known, path |-> path, ri |-> ri, tried |-> {}]

\* spawn(..., loadViaEndpoints(...)) up to its first await
SpawnLoadViaEndpoints(st, endpoints, known, path, ri) ==
  LET urls == Uniq([i \in 1..Len(endpoints) |-> stripAddonUrl(endpoints[i])])
  IN [st EXCEPT !.ignoreUrls = @ \cup Range(urls) \cup Range(endpoints),
                !.jobs = Append(@, Job("endpoints", 0, urls, endpoints, "", known, path, ri))]

\* spawn(..., loadViaRepository(addon, requirePath)) up to its first await
SpawnLoadViaRepository(st, o, path) ==
  LET a == st.heap[o]
  IN [st EXCEPT !.ignoreIds = @ \cup {a.id},
                !.jobs = Append(@, Job(IF a.eng = "" THEN "repoAnalyze" ELSE "repoCall",
                                       o, a.eps, <<>>, a.eng, FALSE, path, NoRoot))]

\* catch (error) of a job: the exception, if any, goes to onError
Catch(st, ctx, id, eps) == IF st.exc # "" THEN OnError(st, ctx, id, eps) ELSE st

RECURSIVE handleRequirement(_, _, _, _, _, _)
RECURSIVE RefreshOrCheck(_, _, _, _, _)
RECURSIVE checkAddon(_, _, _, _, _, _)
RECURSIVE HandleRequirements(_, _, _, _, _, _, _)
RECURSIVE CheckRepository(_, _, _)
RECURSIVE SpawnLoadViaAddon(_, _, _, _, _, _)

\* load.handleRequirement(req, endpointType, isKnownRequirement, requirePath, rootIndex)
handleRequirement(st, req, known, path, ri, depth) ==
  IF st.exc # "" THEN st
  ELSE IF depth > StackLimit THEN Throw(st, "RangeError")
  ELSE IF st.cfg.discover /\ Len(path) >= st.cfg.maxDepth THEN st
  ELSE
    LET hit == {k \in 1..Len(st.available) : matchesRequirement(st.heap[st.available[k]], req)}
    IN IF hit # {} THEN
         LET k == CHOOSE i \in hit : \A j \in hit : i <= j
             o == st.available[k]
         IN RefreshOrCheck(addAvailable(st, o, NoProps, path, st.heap[o].eps \o req),
                           known, path, ri, depth)
       ELSE IF \E i \in 1..Len(req) : req[i] \notin st.ignoreUrls
         THEN SpawnLoadViaEndpoints(st, req, known, path, ri)
       ELSE st

\* handleRequirement once addAvailable returned the matching addon (st.ret):
\* it is refreshed by a loadViaAddon job or checked at once
RefreshOrCheck(st, known, path, ri, depth) ==
  IF st.cfg.refresh = "all" \/ (st.cfg.refresh = "required" /\ known)
  THEN SpawnLoadViaAddon(st, st.ret, known, path, ri, depth + 1)
  ELSE checkAddon(st, st.ret, known, path, ri, depth + 1)

\* for (const req of addon.getConvertedRequirements()) handleRequirement(...)
HandleRequirements(st, reqs, i, known, path, ri, depth) ==
  IF i > Len(reqs) THEN st
  ELSE HandleRequirements(handleRequirement(st, reqs[i], known, path, ri, depth),
                          reqs, i + 1, known, path, ri, depth)

\* load.checkAddon(addon, isKnownRequirement, requirePath, rootIndex)
checkAddon(st, o, known, path0, ri, depth) ==
  IF st.exc # "" THEN st
  ELSE IF depth > StackLimit THEN Throw(st, "RangeError")
  ELSE
    LET a == st.heap[o]
        path == CapPath(Append(path0, a.id))
    IN IF /\ ~st.cfg.discover
          /\ ~known
          /\ ~\E i \in 1..Len(st.addons) : hasRequirement(st.heap[st.addons[i]], a)
       THEN st
       ELSE
         LET i == FindIndex(st, a.id)
             st1 == IF i = 0 \/ PropsOf(st.heap[st.addons[i]]) # PropsOf(a)
                    THEN addAddonClass(st, o, NoRoot) ELSE st
         IN CheckRepository(
              HandleRequirements(
                [st1 EXCEPT !.rootAddons = IF Len(path) = 1 /\ ri # NoRoot
                                           THEN [@ EXCEPT ![ri] = a.id] ELSE @],
                getConvertedRequirements(a), 1, known, path, ri, depth + 1),
              o, path)

\* the end of checkAddon: a legacy repository addon gets a loadViaRepository job
CheckRepository(st, o, path) ==
  IF /\ st.exc = ""
     /\ st.heap[o].repo
     /\ st.heap[o].id \notin st.ignoreIds
     /\ (~st.cfg.discover \/ Len(path) < st.cfg.maxDepth)
  THEN SpawnLoadViaRepository(st, o, path)
  ELSE st

\* spawn(..., loadViaAddon(addon, isKnownRequirement, requirePath, rootIndex))
\* up to its first await; for an immutable addon there is none
SpawnLoadViaAddon(st, o, known, path, ri, depth) ==
  LET a == st.heap[o]
      st1 == [st EXCEPT !.ignoreUrls = @ \cup Range(a.eps)]
  IN IF isImmutable(a)
     THEN Catch(checkAddon(st1, o, known, path, ri, depth), "addon", a.id, <<>>)
     ELSE [st1 EXCEPT !.jobs = Append(@, Job("addon", o, a.eps, <<>>, a.eng, known, path, ri))]

----------------------------------------------------------------------------
(* Instances that nothing refers to any more are dropped and the rest are  *)
(* renumbered in the order registry, available table, jobs.                *)

LiveOrder(st) ==
  LET jo == [i \in 1..Len(st.jobs) |-> st.jobs[i].oid]
      IsRef(o) == o # 0
  IN Uniq(st.addons \o st.available \o SelectSeq(jo, IsRef))

\* properties objects are named after the first instance that holds them
Renamed(h) ==
  [i \in 1..Len(h) |->
     [h[i] EXCEPT !.p = CHOOSE k \in 1..i : h[k].p = h[i].p /\ \A m \in 1..(k - 1) : h[m].p # h[i].p]]

Normalize(st) ==
  LET order == LiveOrder(st)
      new(o) == IF o = 0 THEN 0 ELSE IndexOf(order, o)
  IN [st EXCEPT
        !.heap = Renamed([i \in 1..Len(order) |-> st.heap[order[i]]]),
        !.addons = [i \in 1..Len(st.addons) |-> new(st.addons[i])],
        !.available = [i \in 1..Len(st.available) |-> new(st.available[i])],
        !.jobs = [i \in 1..Len(st.jobs) |-> [st.jobs[i] EXCEPT !.oid = new(@)]],
        !.ret = 0]

\* the state record of the current state, under the load arguments c
Cur(c) ==
  [heap |-> heap, addons |-> addons, available |-> available, ignoreUrls |-> ignoreUrls,
   ignoreIds |-> ignoreIds, rootAddons |-> rootAddons, rootIndex |-> rootIndex,
   jobs |-> jobs, errors |-> errors, cfg |-> c, exc |-> "", ret |-> 0]

\* the next state's variables from a state record
Commit(st) ==
  \E n \in {Normalize(st)} :
     /\ heap' = n.heap
     /\ addons' = n.addons
     /\ available' = n.available
     /\ ignoreUrls' = n.ignoreUrls
     /\ ignoreIds' = n.ignoreIds
     /\ rootAddons' = n.rootAddons
     /\ rootIndex' = n.rootIndex
     /\ jobs' = n.jobs
     /\ errors' = n.errors

\* a load that has returned and has no job left: its tables are garbage
Forget(st) == [st EXCEPT !.available = <<>>, !.ignoreUrls = {}, !.ignoreIds = {}, !.exc = ""]

IdsOf(h, s) == {h[s[i]].id : i \in 1..Len(s)}

----------------------------------------------------------------------------
(* The final sort of a non-discovery load *)

RECURSIVE Iter(_, _, _)
RECURSIVE IterReqs(_, _, _, _, _)

\* iter(addon): push it, then walk its requirements over this.addons
Iter(st, sorted, o) ==
  IterReqs(st, Append(sorted, o), getConvertedRequirements(st.heap[o]), 1, 1)

\* the two nested loops of iter, at requirement r and registry position k
IterReqs(st, sorted, reqs, r, k) ==
  IF r > Len(reqs) THEN sorted
  ELSE IF k > Len(st.addons) THEN IterReqs(st, sorted, reqs, r + 1, 1)
  ELSE LET other == st.addons[k]
       IN IF ~Includes(sorted, other) /\ matchesRequirement(st.heap[other], reqs[r])
          THEN IterReqs(st, Iter(st, sorted, other), reqs, r, k + 1)
          ELSE IterReqs(st, sorted, reqs, r, k + 1)

RECURSIVE SortRoots(_, _, _, _)
\* for (let i = 0; i < rootIndex; i++) iter(this.getAddon(rootAddons[i]))
SortRoots(st, sorted, i, n) ==
  IF i >= n THEN sorted
  ELSE LET k == IF st.rootAddons[i] = "" THEN 0 ELSE FindIndex(st, st.rootAddons[i])
       IN IF k = 0 THEN SortRoots(st, sorted, i + 1, n)
          ELSE SortRoots(st, Iter(st, sorted, st.addons[k]), i + 1, n)

\* variant of the final sort: the registry is left as it is
SortAddonsKept(st) == st

\* this.addons.splice(0, this.addons.length, ...sorted)
SortAddons(st) == [st EXCEPT !.addons = SortRoots(st, <<>>, 0, st.rootIndex)]

----------------------------------------------------------------------------
(* getUnresolvedRequirements *)

RECURSIVE UnresolvedIter(_, _, _)
RECURSIVE UnresolvedReqs(_, _, _, _, _, _, _)

\* iter(addon) of getUnresolvedRequirements: push the addon on sorted, then
\* walk its requirements; acc holds the arrays sorted and missing
UnresolvedIter(st, acc, o) ==
  UnresolvedReqs(st, [acc EXCEPT !.sorted = Append(@, o)], o,
                 getConvertedRequirements(st.heap[o]), 1, 1, FALSE)

\* the two nested loops of iter, at requirement r and registry position k:
\* an addon not yet on sorted that matches is visited and sets found; a
\* requirement that ends its scan with found unset is pushed on missing
UnresolvedReqs(st, acc, o, reqs, r, k, found) ==
  IF r > Len(reqs) THEN acc
  ELSE IF k > Len(st.addons)
       THEN UnresolvedReqs(st,
              IF found THEN acc
              ELSE [acc EXCEPT !.missing = Append(@, [addonId |-> st.heap[o].id, req |-> reqs[r]])],
              o, reqs, r + 1, 1, FALSE)
  ELSE LET other == st.addons[k]
       IN IF ~Includes(acc.sorted, other) /\ matchesRequirement(st.heap[other], reqs[r])
          THEN UnresolvedReqs(st, UnresolvedIter(st, acc, other), o, reqs, r, k + 1, TRUE)
          ELSE UnresolvedReqs(st, acc, o, reqs, r, k + 1, found)

RECURSIVE UnresolvedEach(_, _, _)
\* this.addons.forEach(iter)
UnresolvedEach(st, acc, i) ==
  IF i > Len(st.addons) THEN acc
  ELSE UnresolvedEach(st, UnresolvedIter(st, acc, st.addons[i]), i + 1)

\* Manager.getUnresolvedRequirements: the array missing
getUnresolvedRequirements(st) ==
  UnresolvedEach(st, [sorted |-> <<>>, missing |-> <<>>], 1).missing

----------------------------------------------------------------------------
(* The inputs of load *)

InClass(inst) == [kind |-> "addonClass", props |-> PropsOf(inst), imm |-> inst.imm, eps |-> <<>>]
InProps(props) == [kind |-> "addonProps", props |-> props, imm |-> FALSE, eps |-> <<>>]
InEndpoints(eps) == [kind |-> "endpoints", props |-> NoProps, imm |-> FALSE, eps |-> eps]
InUrl(url) == [kind |-> "url", props |-> NoProps, imm |-> FALSE, eps |-> <<url>>]
InUserInput(text) == [kind |-> "userInput", props |-> NoProps, imm |-> FALSE, eps |-> <<text>>]
InEmpty == [kind |-> "", props |-> NoProps, imm |-> FALSE, eps |-> <<>>]
\* an addon of the registry, as load itself prepends it to the inputs
InRegistered(o) == [kind |-> "registered", props |-> NoProps, imm |-> FALSE, eps |-> <<o>>]

\* mutateUserInput: https and http, each with and without the descriptor file
mutateUserInput(text) ==
  LET variant(protocol) ==
        LET u == <<protocol>> \o Tail(text)
        IN IF u[Len(u)] = "mediahubmx.json" THEN <<u>>
           ELSE <<Append(u, "mediahubmx.json"), u>>
  IN variant("https") \o variant("http")

NextRoot(st) == [st EXCEPT !.rootIndex = @ + 1]

\* spawn(..., loadViaAddon(addon, true, requirePath, rootIndex++)) for the
\* addon just returned (st.ret); only an empty requirePath takes a root index
SpawnInput(st, path) ==
  IF Len(path) = 0
  THEN SpawnLoadViaAddon(NextRoot(st), st.ret, TRUE, path, st.rootIndex, 1)
  ELSE SpawnLoadViaAddon(st, st.ret, TRUE, path, NoRoot, 1)

\* an addonClass input: the instance at heap index o
LoadInputClass(st, o) ==
  SpawnInput(IF isImmutable(st.heap[o]) THEN [st EXCEPT !.ret = o]
             ELSE addAvailable(st, o, NoProps, st.heap[o].path, <<>>),
             st.heap[o].path)

\* an addonClass input handed to load: a new object
LoadInputNewClass(st) == LoadInputClass(st, st.ret)

\* one round of `for (const input of inputs)` in load
LoadInput(st, input) ==
  IF input.kind = "registered" THEN LoadInputClass(st, input.eps[1])
  ELSE IF input.kind = "addonClass" THEN
    LoadInputNewClass(Alloc(st, NewInstance(input.props, <<>>, input.imm)))
  ELSE IF input.kind = "addonProps" THEN
    SpawnInput(addAvailable(st, 0, input.props, <<>>, <<>>), <<>>)
  ELSE IF input.kind \in {"endpoints", "url"} THEN
    handleRequirement(NextRoot(st), input.eps, TRUE, <<>>, st.rootIndex, 1)
  ELSE IF input.kind = "userInput" THEN
    IF input.eps[1] \in st.ignoreUrls THEN st
    ELSE handleRequirement(NextRoot(st), mutateUserInput(input.eps[1]), TRUE, <<>>,
                           st.rootIndex, 1)
  ELSE Throw(st, "Found an empty input element")

RECURSIVE LoadInputs(_, _, _)
LoadInputs(st, inputs, i) ==
  IF i > Len(inputs) \/ st.exc # "" THEN st
  ELSE LoadInputs(LoadInput(st, inputs[i]), inputs, i + 1)

RECURSIVE AddAvailableProps(_, _, _)
\* for (const props of availableAddonProps) addAvailable(props, [])
AddAvailableProps(st, list, i) ==
  IF i > Len(list) THEN st
  ELSE AddAvailableProps(addAvailable(st, 0, list[i], <<>>, <<>>), list, i + 1)

\* load, from its call to its first await (or to the exception it throws)
LoadStart(st, availableAddonProps, inputs) ==
  LET all == [i \in 1..Len(st.addons) |-> InRegistered(st.addons[i])] \o inputs
      st0 == [st EXCEPT !.available = <<>>, !.ignoreUrls = {}, !.ignoreIds = {},
                        !.rootAddons = [i \in 0..(Len(all) - 1) |-> ""],
                        !.rootIndex = 0, !.jobs = <<>>, !.errors = {}]
  IN LoadInputs(AddAvailableProps(st0, availableAddonProps, 1), all, 1)

----------------------------------------------------------------------------
(* What runs when an awaited call of a job comes back *)

\* AddonClass.analyzeAddon after analyzeEndpoints returned `result`: set the
\* engine once, move the answering endpoint to the front
analyzeAddon(a, result) ==
  LET endpoint == result.props.eps[1]
      i == IndexOf(a.eps, endpoint)
      eps == IF a.eps # <<>> /\ a.eps[1] = endpoint THEN a.eps
             ELSE <<endpoint>> \o (IF i = 0 THEN a.eps ELSE RemoveAt(a.eps, i))
  IN [a EXCEPT !.eng = IF @ = "" THEN result.engine ELSE @, !.eps = eps]

\* checkAddon(addAvailable(...), isKnownRequirement, requirePath, rootIndex)
CheckReturned(st, known, path, ri) == checkAddon(st, st.ret, known, path, ri, 1)

\* variant of the result handling: the results are dropped
LoadViaEndpointsResultsDropped(st, job, list, i) == st

RECURSIVE LoadViaEndpointsResults(_, _, _, _)
\* for (const r of result) in loadViaEndpoints
LoadViaEndpointsResults(st, job, list, i) ==
  IF i > Len(list) \/ st.exc # "" THEN st
  ELSE
    LET r == list[i]
        known == IF r.isServer THEN FALSE ELSE job.known
    IN LoadViaEndpointsResults(
         IF r.props # NoProps
         THEN CheckReturned(addAvailable(st, 0, r.props, job.path, <<>>),
                            known, job.path, job.ri)
         ELSE handleRequirement(st, r.endpoints, known, job.path, job.ri, 1),
         job, list, i + 1)

\* the try block of loadViaEndpoints after `await analyzeEndpoints(...)`
LoadViaEndpointsTry(st, job, result) ==
  IF ~result.ok THEN Throw(st, "No MediaHubMX addon found")
  ELSE LoadViaEndpointsResults(st, job, result.list, 1)

\* loadViaEndpoints after the await: the try block and its catch
loadViaEndpoints(st, job, result) ==
  Catch(LoadViaEndpointsTry(st, job, result), "endpoints", "", job.orig)

\* the try block of loadViaAddon after `await addon.call({action: "addon"})`
LoadViaAddonTry(st, job, result) ==
  IF ~result.ok \/ result.list = <<>> THEN Throw(st, "No working endpoint found")
  ELSE
    LET analyzed == analyzeAddon(st.heap[job.oid], result.list[1])
    IN CheckReturned(addAvailable([st EXCEPT !.heap = SetProps(@, job.oid, analyzed)], 0,
                                  result.list[1].props, job.path, analyzed.eps),
                     job.known, job.path, job.ri)

\* loadViaAddon after the await: the try block and its catch
loadViaAddon(st, job, result) ==
  Catch(LoadViaAddonTry(st, job, result), "addon", st.heap[job.oid].id, <<>>)

\* the "repository" action is answered by a legacy repository speaking the
\* addon's dialect
RepositoryAnswers(endpoint, engine) ==
  LET a == Net(stripAddonUrl(endpoint))
  IN a.type = "addon" /\ a.props.repo /\ a.eng = engine

RECURSIVE LoadViaRepositoryResults(_, _, _, _)
\* for (const props of res) in loadViaRepository
LoadViaRepositoryResults(st, job, list, i) ==
  IF i > Len(list) \/ st.exc # "" THEN st
  ELSE
    LET bases == st.heap[job.oid].eps
        endpoints == Flatten([r \in 1..Len(list[i]) |->
                               [k \in 1..Len(bases) |-> ResolveUrl(list[i][r], bases[k])]])
    IN LoadViaRepositoryResults(handleRequirement(st, endpoints, FALSE, job.path, NoRoot, 1),
                                job, list, i + 1)

\* loadViaRepository once the repository call returned `list` or threw
loadViaRepository(st, job, ok, list) ==
  Catch(IF ok THEN LoadViaRepositoryResults(st, job, list, 1)
        ELSE Throw(st, "No working endpoint found"),
        "addon", st.heap[job.oid].id, <<>>)

\* iterateEndpoints: the first endpoint of the addon not tried yet, <<>> if none
NextEndpoint(a, tried) ==
  LET left == {i \in 1..Len(a.eps) : a.eps[i] \notin tried}
  IN IF left = {} THEN <<>> ELSE <<a.eps[CHOOSE i \in left : \A j \in left : i <= j]>>

\* variant of onError: the endpoint list is left as it is
RotateEndpointNever(a, endpoint) == a

\* variant of onError: a failed first endpoint is shifted off the list and
\* not pushed back
RotateEndpointShift(a, endpoint) ==
  IF a.eps # <<>> /\ a.eps[1] = endpoint THEN [a EXCEPT !.eps = Tail(@)] ELSE a

\* onError of iterateEndpoints: a failed first endpoint moves to the end
RotateEndpoint(a, endpoint) ==
  IF a.eps # <<>> /\ a.eps[1] = endpoint THEN [a EXCEPT !.eps = Append(Tail(@), endpoint)] ELSE a

----------------------------------------------------------------------------
(* The probe race of analyzeEndpoints, with its clock.  `race` is         *)
(*   [pc, todo, lat, timeout, allow, next, started, pending, now,         *)
(*    result, ret]:                                                       *)
(*   todo     the probe URLs queued, lat[i] the time probe i takes,       *)
(*   next     the first probe of todo not started yet,                    *)
(*   started  the start time of every started probe,                      *)
(*   pending  the started probes still in `pending`, in start order,      *)
(*   result   the probe whose result was taken (0: none),                 *)
(*   ret      what analyzeEndpoints returned.                             *)

\* no call of analyzeEndpoints is followed
NoRace ==
  [pc |-> "off", todo |-> <<>>, lat |-> <<>>, timeout |-> 0, allow |-> FALSE, next |-> 1,
   started |-> <<>>, pending |-> <<>>, cancel |-> {}, now |-> 0, result |-> 0, ret |-> Threw]

\* the time at which probe i's promise settles
ProbeDone(r, i) == r.started[i] + Min(r.lat[i], EndpointTestTimeout)

\* what probe i's fetch gives: handleResponse's list, or an error
ProbeOutcome(r, i) ==
  IF r.lat[i] > EndpointTestTimeout THEN Threw
  ELSE handleResponse(r.todo[i].engine, r.todo[i].url, FetchProbe(r.todo[i].url), r.allow)

\* variant of "Start new tasks": two probes of todo per turn of the loop
RaceStartTwo(r) ==
  IF r.next > Len(r.todo) THEN r
  ELSE IF r.next = Len(r.todo)
       THEN [r EXCEPT !.pending = Append(@, r.next), !.started = Append(@, r.now), !.next = @ + 1]
  ELSE [r EXCEPT !.pending = @ \o <<r.next, r.next + 1>>, !.started = @ \o <<r.now, r.now>>,
                 !.next = @ + 2]

\* "Start new tasks": one probe of todo per turn of the loop
RaceStart(r) ==
  IF r.next > Len(r.todo) THEN r
  ELSE [r EXCEPT !.pending = Append(@, r.next), !.started = Append(@, r.now), !.next = @ + 1]

\* variant of the await: it returns when loadNextTimeout has run out
RaceWakeLate(r) == r.now + r.timeout

\* await Promise.race(pp): the time the first pending probe settles or
\* loadNextTimeout runs out
RaceWake(r) ==
  LET dones == {ProbeDone(r, r.pending[k]) : k \in 1..Len(r.pending)} \cup {r.now + r.timeout}
  IN CHOOSE t \in dones : \A u \in dones : t <= u

\* for (const p of pending) if (p.result) { result = p.result; break; }
RacePick(r, wake) ==
  LET has == {k \in 1..Len(r.pending) :
                ProbeDone(r, r.pending[k]) <= wake /\ ProbeOutcome(r, r.pending[k]).ok}
  IN IF has = {} THEN 0 ELSE r.pending[CHOOSE k \in has : \A m \in has : k <= m]

\* pending.filter((p) => !p.cancel && !p.error && !p.result)
RaceKeep(r, wake) == SelectSeq(r.pending, LAMBDA i : ProbeDone(r, i) > wake)

\* EndpointFetcher's catch block: a probe whose fetch threw sets its cancel
RaceFailed(r, wake) ==
  {r.pending[k] : k \in {k \in 1..Len(r.pending) :
                           ProbeDone(r, r.pending[k]) <= wake /\ ~ProbeOutcome(r, r.pending[k]).ok}}

\* one turn of the while loop, at the time `wake` its await returns
RaceTurn(r, wake) ==
  [r EXCEPT !.now = wake, !.result = RacePick(r, wake), !.pending = RaceKeep(r, wake),
            !.cancel = @ \cup RaceFailed(r, wake)]

\* variant of the end of analyzeEndpoints: the probes left are not marked
RaceCancelNone(r) == r.cancel

\* for (const p of pending) p.cancel = true
RaceCancel(r) == r.cancel \cup Range(r.pending)

\* variant of the loop condition: the loop runs while a probe is pending
RaceRunsWhilePending(r) == r.result = 0 /\ r.pending # <<>>

\* while (!result && (todo.length > 0 || pending.length > 0))
RaceRuns(r) == r.result = 0 /\ (r.next <= Len(r.todo) \/ r.pending # <<>>)

----------------------------------------------------------------------------
(* AddonClass.call for an action other than "addon", on an addon whose     *)
(* engine is known.  `call` is                                             *)
(*   [pc, addon, tried, lastError, answer, script, pos, data, url,         *)
(*    handlers, throwing, warnings, invoked, posts, ret, err]:             *)
(*   addon     the addon's properties, of which only endpoints matter,     *)
(*   tried     triedEndpoints of iterateEndpoints,                         *)
(*   answer    what each endpoint does with the request,                   *)
(*   script    the remote's responses: task requests, then the final one,  *)
(*   data      the latest response, url the endpoint it came from,         *)
(*   handlers  the task types of options.taskHandlers, throwing those      *)
(*             whose handler throws,                                       *)
(*   warnings  the errors given to onWarning, each with its endpoint,      *)
(*   invoked   the task ids whose handler was invoked, in order,           *)
(*   posts     the task responses posted: [url, id, error],                *)
(*   ret, err  the value returned, the message of the error raised.        *)

\* What an endpoint does with the request:
\*   "down"    no response (timeout, connection failure): fetch rejects,
\*   "text"    a non-2xx status with a body that is not JSON,
\*   "status"  a non-2xx status with a JSON body,
\*   "ok"      a 2xx status, the body is the remote's response
AnswerKinds == {"down", "text", "status", "ok"}

TaskTypes == {"fetch", "toast", "recaptcha"}

TaskRequest(id, type) == [kind |-> "taskRequest", id |-> id, type |-> type, error |-> ""]
FinalResponse == [kind |-> "response", id |-> 0, type |-> "", error |-> ""]
\* the JSON body an addon server sends with a status 500
ErrorBody == [kind |-> "response", id |-> 0, type |-> "", error |-> "500"]
NoData == [kind |-> "", id |-> 0, type |-> "", error |-> ""]

NoCall ==
  [pc |-> "off", addon |-> [eps |-> <<>>], tried |-> {}, lastError |-> "", answer |-> <<>>,
   script |-> <<>>, pos |-> 0, data |-> NoData, url |-> <<>>, handlers |-> {}, throwing |-> {},
   warnings |-> <<>>, invoked |-> <<>>, posts |-> <<>>, ret |-> NoData, err |-> ""]

\* the error the try block of the failover loop throws for an answer
FetchError(kind) == IF kind = "down" THEN "fetch failed" ELSE "not JSON"

\* the try block of the failover loop throws: fetch rejects, or the body is
\* not JSON
FetchThrows(kind) == kind \in {"down", "text"}

\* the failover loop when iterateEndpoints is exhausted: the generator
\* throws lastError if there is one, else call throws
CallExhausted(c) ==
  [c EXCEPT !.pc = "threw",
            !.err = IF c.lastError # "" THEN c.lastError ELSE "No working endpoint found"]

\* catch (error) { onWarning(error); await result.value.onError(error); continue; }
CallEndpointFailed(c, endpoint) ==
  [c EXCEPT !.tried = @ \cup {endpoint},
            !.url = endpoint,
            !.warnings = Append(@, [url |-> endpoint, error |-> FetchError(c.answer[endpoint])]),
            !.lastError = FetchError(c.answer[endpoint]),
            !.addon = RotateEndpoint(@, endpoint)]

\* data = JSON.parse(text); await result.value.onSuccess(); break;
CallEndpointAnswered(c, endpoint) ==
  [c EXCEPT !.tried = @ \cup {endpoint},
            !.url = endpoint,
            !.pc = "tasks",
            !.pos = 1,
            !.data = IF c.answer[endpoint] = "ok" THEN c.script[1] ELSE ErrorBody]

\* one turn of the failover loop
CallTry(c, next) ==
  IF next = <<>> THEN CallExhausted(c)
  ELSE IF FetchThrows(c.answer[next[1]]) THEN CallEndpointFailed(c, next[1])
  ELSE CallEndpointAnswered(c, next[1])

\* the task loop when the latest response is not a task request
CallFinish(c) ==
  IF c.data.error # "" THEN [c EXCEPT !.pc = "threw", !.err = c.data.error]
  ELSE [c EXCEPT !.pc = "returned", !.ret = c.data]

\* variant of the handler run: no error is recorded
TaskErrorNone(c, task) == ""

\* the error of running the task's handler ("" when it returns)
TaskError(c, task) ==
  IF task.type \notin c.handlers THEN "Unknown task type"
  ELSE IF task.type \in c.throwing THEN "handler failed"
  ELSE ""

\* variant of the task loop: the remote's next response is taken without
\* running the task
CallSkipTask(c, task) == [c EXCEPT !.pos = @ + 1, !.data = c.script[c.pos + 1]]

\* the task loop for a task request: run the handler, post the task
\* response to url, take the remote's next response
CallRunTask(c, task) ==
  [c EXCEPT
     !.invoked = IF task.type \in c.handlers THEN Append(@, task.id) ELSE @,
     !.warnings = IF TaskError(c, task) # ""
                  THEN Append(@, [url |-> c.url, error |-> "Failed executing task"]) ELSE @,
     !.posts = Append(@, [url |-> c.url, id |-> task.id, error |-> TaskError(c, task)]),
     !.pos = @ + 1,
     !.data = c.script[c.pos + 1]]

----------------------------------------------------------------------------
(* EndpointFetcher.fetch: the redirect loop of one probe.  A request and   *)
(* its response take one unit of time.                                     *)

\* the URLs the followed probe can be sent to
FetchUrls == {UA, UB, UC}

\* a response that is no redirect: its status is not 3xx or it has no
\* location header
NoLocation == <<>>

\* what each URL answers: the location it redirects to, or NoLocation
RedirectTables == [FetchUrls -> FetchUrls \cup {NoLocation}]

NoProbe ==
  [pc |-> "off", redirects |-> [u \in FetchUrls |-> NoLocation], currentUrl |-> <<>>,
   ignore |-> {}, requested |-> <<>>, elapsed |-> 0, cancel |-> FALSE, outcome |-> ""]

\* the promise of fetch settles once: a rejection by the timer stands
FetchSettles(p, outcome) == IF p.outcome = "" THEN outcome ELSE p.outcome

\* one turn of the for (;;) loop: request currentUrl; a redirect met while
\* the probe is not cancelled sets currentUrl to its location and is followed
\* unless `ignore` has the location.  Nothing is ever added to `ignore`.
FetchTurn(p) ==
  LET location == p.redirects[p.currentUrl]
      q == [p EXCEPT !.requested = Append(@, p.currentUrl), !.elapsed = @ + 1]
  IN IF ~p.cancel /\ location # NoLocation
     THEN IF location \in q.ignore
          THEN [q EXCEPT !.currentUrl = location, !.pc = "settled",
                         !.outcome = FetchSettles(p, "response")]
          ELSE [q EXCEPT !.currentUrl = location]
     ELSE [q EXCEPT !.pc = "settled", !.outcome = FetchSettles(p, "response")]

\* the timer: reject(new Error("Timeout")); the rejection reaches the catch
\* block of the constructor, which sets cancel
FetchTimeout(p) == [p EXCEPT !.outcome = FetchSettles(p, "Timeout"), !.cancel = TRUE]

----------------------------------------------------------------------------
(* validateAction.  Payloads are objects of a store and are named by their *)
(* index in it, so that a rewrite in place and a copy can be told apart.   *)

\* an object payload: `legacy` while it has the wire shape of an old SDK,
\* `checked` once a schema validator has normalised it
Obj(legacy) == [kind |-> "object", legacy |-> legacy, checked |-> FALSE, items |-> <<>>]

\* an array payload: the references of its elements
Arr(items) == [kind |-> "array", legacy |-> FALSE, checked |-> FALSE, items |-> items]

\* MigrateResult
MigrateResult(action, data, validate, store) ==
  [action |-> action, data |-> data, validate |-> validate, store |-> store]

NoValidation ==
  [pc |-> "off", engine |-> "", action |-> "", type |-> "", legacyV1 |-> FALSE,
   copies |-> FALSE, store |-> <<>>, data |-> 0,
   res |-> MigrateResult("", 0, TRUE, <<>>), out |-> [action |-> "", data |-> 0], err |-> ""]

\* a validator of getClientValidators(): it returns the normalised payload,
\* which is its argument, normalised in place, or a normalised copy of it
\* (copies), as the schema package decides
Validator(store, ref, copies) ==
  IF copies
  THEN [store |-> Append(store, [store[ref] EXCEPT !.checked = TRUE]), ref |-> Len(store) + 1]
  ELSE [store |-> [store EXCEPT ![ref].checked = TRUE], ref |-> ref]

\* getClientValidators().actions[action]?.[type]: the schema has validators
\* for its own actions; "repository" and the legacy "directory" are none
HasValidator(action, type) == action \in {"addon", "catalog"}

\* the migrations that rewrite the payload they are given in place
\* (addon.response of both engines, catalog of mediaurl)
MigrateInPlace(store, ref) == [store EXCEPT ![ref].legacy = FALSE]

RECURSIVE MigrateItems(_, _, _, _)
\* data.map(addon.response).map(models.addon): every element is rewritten in
\* place and validated; the result is a new array
MigrateItems(store, items, copies, done) ==
  IF items = <<>> THEN [store |-> Append(store, Arr(done)), ref |-> Len(store) + 1]
  ELSE LET r == Validator(MigrateInPlace(store, Head(items)), Head(items), copies)
       IN MigrateItems(r.store, Tail(items), copies, Append(done, r.ref))

\* repository.request: data = actions.addon.request(data); { data, validate: false }
MigrateRepositoryRequest(v) ==
  LET r == Validator(v.store, v.data, v.copies)
  IN MigrateResult(v.action, r.ref, FALSE, r.store)

\* repository.response: { data: <the new array>, validate: false }
MigrateRepositoryResponse(v) ==
  LET r == MigrateItems(v.store, v.store[v.data].items, v.copies, <<>>)
  IN MigrateResult(v.action, r.ref, FALSE, r.store)

\* applyMigration: { action, data, ...migrations[engine]?.[action]?.[type]?.(data) }
applyMigration(v) ==
  IF v.action = "repository"
  THEN IF v.type = "request" THEN MigrateRepositoryRequest(v) ELSE MigrateRepositoryResponse(v)
  ELSE IF v.action = "addon" /\ v.type = "response"
  THEN MigrateResult(v.action, v.data, TRUE, MigrateInPlace(v.store, v.data))
  ELSE IF v.engine = "mediaurl" /\ v.action = "catalog"
  THEN MigrateResult(IF v.type = "request" /\ v.legacyV1 THEN "directory" ELSE v.action,
                     v.data, TRUE, MigrateInPlace(v.store, v.data))
  ELSE MigrateResult(v.action, v.data, TRUE, v.store)

\* validateAction after applyMigration: validate unless the migration opted
\* out; return { action: res.action ?? action, data }
validateAction(v) ==
  IF v.res.validate
  THEN IF ~HasValidator(v.action, v.type)
       THEN [v EXCEPT !.pc = "threw", !.err = "No validator found"]
       ELSE LET r == Validator(v.store, v.res.data, v.copies)
            IN [v EXCEPT !.pc = "returned", !.store = r.store,
                         !.out = [action |-> v.res.action, data |-> r.ref]]
  ELSE [v EXCEPT !.pc = "returned", !.out = [action |-> v.res.action, data |-> v.data]]

----------------------------------------------------------------------------
(* Concurrent calls of AddonClass.call on one addon.  Each call has its    *)
(* own iterator (triedEndpoints); props.endpoints is shared.  A call runs  *)
(* without interruption from one await to the next.                        *)

\* the iterator of a call that has not started
NoIterator == [pc |-> "off", tried |-> <<>>, endpoint |-> <<>>, fails |-> {}]

NoFailover == [addon |-> [eps |-> <<>>], gen |-> <<NoIterator, NoIterator>>]

\* await it.next(): the generator takes the first endpoint not in
\* triedEndpoints and adds it, or ends (or throws lastError); then the
\* request is sent
IteratorNext(f, i) ==
  LET next == NextEndpoint(f.addon, Range(f.gen[i].tried))
  IN IF next = <<>> THEN [f EXCEPT !.gen[i].pc = "threw", !.gen[i].endpoint = <<>>]
     ELSE [f EXCEPT !.gen[i].pc = "fetching", !.gen[i].endpoint = next[1],
                    !.gen[i].tried = Append(@, next[1])]

\* the request of call i settles: the catch block runs onError, which
\* rotates the shared list, and continues; or onSuccess and break
IteratorSettles(f, i) ==
  IF f.gen[i].endpoint \in f.gen[i].fails
  THEN [f EXCEPT !.gen[i].pc = "next", !.addon = RotateEndpoint(@, f.gen[i].endpoint)]
  ELSE [f EXCEPT !.gen[i].pc = "done"]

----------------------------------------------------------------------------
(* Actions *)

X1 == Props("x", 1, <<UX1>>, <<>>, FALSE)
X2 == Props("x", 2, <<UX2>>, <<>>, FALSE)
Q1 == Props("q", 1, <<UZ>>, <<>>, FALSE)
B1 == Props("b", 1, <<UB>>, <<>>, FALSE)
C1Props == Props("c", 1, <<UC>>, <<AbsRef(UD)>>, FALSE)
D1Props == Props("d", 1, <<UD>>, <<AbsRef(UC)>>, FALSE)
\* an instance of a class whose isImmutable() is true
ImmX == NewInstance(Props("x", 1, <<>>, <<>>, FALSE), <<>>, TRUE)
ImmT == NewInstance(Props("t", 1, <<>>, <<>>, FALSE), <<>>, TRUE)

\* an addon whose only endpoint is the server alias s
W1 == Props("w", 1, <<US>>, <<>>, FALSE)

ApiProps == {X1, X2, Q1}
\* an addon of a cloned manager: b as it was found, as a requirement of a
ReqB == NewInstance(B1, <<"a">>, FALSE)

ApiClasses == {ImmX, ReqB}

InputLists ==
  { <<>>,
    <<InUrl(UA)>>,
    <<InUrl(UC)>>,
    <<InUrl(US)>>,
    <<InUrl(US), InUrl(UA)>>,
    <<InUrl(UR)>>,
    <<InEndpoints(<<UX1, UX2>>)>>,
    <<InEndpoints(<<UZ, UB>>)>>,
    <<InProps(X1), InProps(X2)>>,
    <<InProps(X2), InProps(X1)>>,
    <<InClass(ImmT), InUrl(UA)>>,
    <<InUserInput(<<"x", "h", "a">>)>>,
    <<InUrl(UA), InUrl(UB)>>,
    <<InUrl(UZ), InUrl(UB)>>,
    <<InUrl(UB), InEmpty, InUrl(UA)>>,
    <<InProps(W1)>>,
    <<InUrl(UE)>>,
    <<InUrl(UG)>> }

\* the calls of load: inputs and availableAddonProps
LoadCalls ==
  {[inputs |-> i, available |-> <<>>] : i \in InputLists}
  \cup {[inputs |-> <<InUrl(UA)>>, available |-> <<B1>>],
        [inputs |-> <<InUrl(UC)>>, available |-> <<C1Props, D1Props>>],
        [inputs |-> <<InEndpoints(<<UX1, UX2>>)>>, available |-> <<X2>>]}

\* the values of maxDepth tried; each is below MaxPathLen
MaxDepths == {0, 1, 2}

Configs ==
  {[discover |-> FALSE, maxDepth |-> 2, refresh |-> r, inputs |-> <<>>, available |-> <<>>] :
     r \in {"none", "required", "all"}}
  \cup {[discover |-> TRUE, maxDepth |-> m, refresh |-> r, inputs |-> <<>>, available |-> <<>>] :
          m \in MaxDepths, r \in {"none", "required", "all"}}

Idle == pc = "idle" /\ nOps < MaxOps /\ nLoads = 0

Init ==
  /\ heap = <<>>
  /\ addons = <<>>
  /\ pc = "idle"
  /\ cfg = [discover |-> FALSE, maxDepth |-> 2, refresh |-> "required",
            inputs |-> <<>>, available |-> <<>>]
  /\ available = <<>>
  /\ ignoreUrls = {}
  /\ ignoreIds = {}
  /\ rootAddons = <<>>
  /\ rootIndex = 0
  /\ jobs = <<>>
  /\ errors = {}
  /\ settled = ""
  /\ failed = {}
  /\ tick = 0
  /\ startIds = {}
  /\ nOps = 0
  /\ nLoads = 0
  /\ race = NoRace
  /\ call = NoCall
  /\ probe = NoProbe
  /\ validation = NoValidation
  /\ failover = NoFailover

\* this.addAddonClass(addon) for the addon just created (st.ret)
AddReturned(st) == addAddonClass(st, st.ret, NoRoot)

\* manager.addAddonProps(props)
AddAddonProps(props) ==
  /\ Idle
  /\ Commit(AddReturned(createAddonClass(Cur(cfg), 0, props, <<>>, FALSE, <<>>)))
  /\ nOps' = nOps + 1
  /\ UNCHANGED <<pc, cfg, settled, failed, tick, startIds, nLoads, race, call, probe, validation, failover>>

\* manager.addAddonClass(addon)
AddAddonClass(inst) ==
  /\ Idle
  /\ Commit(AddReturned(Alloc(Cur(cfg), inst)))
  /\ nOps' = nOps + 1
  /\ UNCHANGED <<pc, cfg, settled, failed, tick, startIds, nLoads, race, call, probe, validation, failover>>

\* manager.removeAddon(id)
RemoveAddon(id) ==
  /\ Idle
  /\ LET st == Cur(cfg)
         i == FindIndex(st, id)
     IN /\ i # 0
        /\ Commit([st EXCEPT !.addons = RemoveAt(@, i)])
  /\ nOps' = nOps + 1
  /\ UNCHANGED <<pc, cfg, settled, failed, tick, startIds, nLoads, race, call, probe, validation, failover>>

\* manager.clear()
Clear ==
  /\ Idle
  /\ addons # <<>>
  /\ Commit([Cur(cfg) EXCEPT !.addons = <<>>])
  /\ nOps' = nOps + 1
  /\ UNCHANGED <<pc, cfg, settled, failed, tick, startIds, nLoads, race, call, probe, validation, failover>>

\* manager.load({inputs, discover, maxDepth, availableAddonProps, refresh})
\* up to its first await
Load(c, availableAddonProps, inputs) ==
  /\ pc = "idle"
  /\ nLoads < MaxLoads
  /\ nLoads > 0 => /\ inputs = <<>>
                   /\ availableAddonProps = <<>>
                   /\ [c EXCEPT !.inputs = cfg.inputs, !.available = cfg.available] = cfg
  /\ \E st \in {LoadStart(Cur(c), availableAddonProps, inputs)} :
        /\ Commit(IF st.exc # "" /\ st.jobs = <<>> THEN Forget(st) ELSE [st EXCEPT !.exc = ""])
        /\ pc' = IF st.exc = "" THEN "loading" ELSE IF st.jobs = <<>> THEN "idle" ELSE "rejected"
        /\ settled' = st.exc
  /\ cfg' = [c EXCEPT !.inputs = inputs, !.available = availableAddonProps]
  /\ failed' = {}
  /\ tick' = 0
  /\ startIds' = IdsOf(heap, addons)
  /\ nLoads' = nLoads + 1
  /\ UNCHANGED <<nOps, race, call, probe, validation, failover>>

\* The job's promise settles and its place in `promises` is freed.  If it
\* rejects (st.exc), the Promise.all load awaits rejects, and so does load.
\* `failure` holds the context of the network call if it failed.
JobDone(st, j, failure) ==
  /\ LET st1 == [st EXCEPT !.jobs = RemoveAt(@, j)]
         rejects == pc = "rejected" \/ st.exc # ""
     IN /\ Commit(IF rejects /\ st1.jobs = <<>> THEN Forget(st1) ELSE [st1 EXCEPT !.exc = ""])
        /\ pc' = IF ~rejects THEN pc ELSE IF st1.jobs = <<>> THEN "idle" ELSE "rejected"
  /\ settled' = IF settled = "" THEN st.exc ELSE settled
  /\ failed' = failed \cup failure
  /\ tick' = 1 - tick
  /\ UNCHANGED <<cfg, startIds, nOps, nLoads, race, call, probe, validation, failover>>

\* a loadViaEndpoints job: analyzeEndpoints returns
EndpointsAnalyzed(j) ==
  /\ jobs[j].kind = "endpoints"
  /\ \E result \in analyzeEndpoints(jobs[j].eps, TRUE, "") :
       JobDone(loadViaEndpoints(Cur(cfg), jobs[j], result), j,
               IF result.ok THEN {} ELSE {Context("endpoints", "", jobs[j].orig)})

\* a loadViaAddon job: the bootstrap call returns or throws
AddonCalled(j) ==
  /\ jobs[j].kind = "addon"
  /\ \E result \in analyzeEndpoints(jobs[j].eps, FALSE, jobs[j].eng) :
       JobDone(loadViaAddon(Cur(cfg), jobs[j], result), j,
               IF result.ok THEN {} ELSE {Context("addon", heap[jobs[j].oid].id, <<>>)})

\* a loadViaRepository job whose addon has no engine yet: its analysis returns
RepositoryAnalyzed(j) ==
  /\ jobs[j].kind = "repoAnalyze"
  /\ \E result \in analyzeEndpoints(jobs[j].eps, FALSE, jobs[j].eng) :
       LET st == Cur(cfg)
           a == st.heap[jobs[j].oid]
       IN IF ~result.ok \/ result.list = <<>>
          THEN JobDone(loadViaRepository(st, jobs[j], FALSE, <<>>), j,
                       {Context("addon", a.id, <<>>)})
          ELSE /\ Commit([st EXCEPT !.heap = SetProps(@, jobs[j].oid, analyzeAddon(a, result.list[1])),
                                    !.jobs[j].kind = "repoCall"])
               /\ tick' = 1 - tick
               /\ UNCHANGED <<pc, cfg, settled, failed, startIds, nOps, nLoads, race, call, probe, validation, failover>>

\* a loadViaRepository job: the next endpoint of the failover answers or fails
RepositoryCalled(j) ==
  /\ jobs[j].kind = "repoCall"
  /\ LET st == Cur(cfg)
         job == jobs[j]
         a == st.heap[job.oid]
         next == NextEndpoint(a, job.tried)
     IN IF next = <<>>
        THEN JobDone(loadViaRepository(st, job, FALSE, <<>>), j,
                     {Context("addon", a.id, <<>>)})
        ELSE IF RepositoryAnswers(next[1], a.eng) THEN
          JobDone(loadViaRepository(st, job, TRUE, Net(stripAddonUrl(next[1])).list), j, {})
        ELSE
          /\ Commit([OnError(st, "addon", a.id, <<>>) EXCEPT
                       !.heap = SetProps(@, job.oid, RotateEndpoint(a, next[1])),
                       !.jobs[j].tried = @ \cup {next[1]}])
          /\ failed' = failed \cup {Context("addon", a.id, <<>>)}
          /\ tick' = 1 - tick
          /\ UNCHANGED <<pc, cfg, settled, startIds, nOps, nLoads, race, call, probe, validation, failover>>

\* variant of the wait loop: it ends whatever `promises` holds
WaitLoopDoneAlways(promises) == TRUE

\* const p = Object.values(promises); if (!p.length) break
WaitLoopDone(promises) == promises = <<>>

\* load after its wait loop found `promises` empty: sort, then resolve
LoadResolves ==
  /\ pc = "loading"
  /\ WaitLoopDone(jobs)
  /\ Commit(Forget(IF cfg.discover THEN Cur(cfg) ELSE SortAddons(Cur(cfg))))
  /\ pc' = "idle"
  /\ settled' = "resolved"
  /\ UNCHANGED <<cfg, failed, tick, startIds, nOps, nLoads, race, call, probe, validation, failover>>

Next ==
  \/ \E props \in ApiProps : AddAddonProps(props)
  \/ \E inst \in ApiClasses : AddAddonClass(inst)
  \/ \E id \in {"x", "q"} : RemoveAddon(id)
  \/ Clear
  \/ \E c \in Configs, args \in LoadCalls : Load(c, args.available, args.inputs)
  \/ \E j \in 1..Len(jobs) : EndpointsAnalyzed(j)
  \/ \E j \in 1..Len(jobs) : AddonCalled(j)
  \/ \E j \in 1..Len(jobs) : RepositoryAnalyzed(j)
  \/ \E j \in 1..Len(jobs) : RepositoryCalled(j)
  \/ LoadResolves

Spec == Init /\ [][Next]_vars

\* The steps in which a pending network call answers or times out: each of
\* them, and no other step, flips tick.  One is possible whenever a call is
\* pending.
CallReturns == jobs # <<>> /\ tick' = 1 - tick

\* The step in which load's wait loop finds `promises` empty and load returns
WaitLoopEnds == pc = "loading" /\ jobs = <<>> /\ pc' = "idle"

\* Every network call eventually answers or times out, and the wait loop of
\* load runs on once no call is pending.
FairSpec == Spec /\ WF_tick(CallReturns) /\ WF_pc(WaitLoopEnds)

\* the calls of analyzeEndpoints followed: endpoints, engine, the time each
\* probe takes and loadNextTimeout
RaceCalls ==
  {[endpoints |-> e, engine |-> g] :
     e \in {<<>>, <<UX1, UX2>>, <<UZ, UB>>, <<UA, UB>>}, g \in {"", "mediahubmx"}}
  \cup {[endpoints |-> <<UZ, UB, UA>>, engine |-> "mediahubmx"]}

RaceInputs ==
  UNION {{[NoRace EXCEPT !.pc = "racing", !.todo = AnalyzeTodo(c.endpoints, c.engine),
                         !.lat = lat, !.timeout = t, !.allow = TRUE] :
            lat \in [1..Len(AnalyzeTodo(c.endpoints, c.engine)) -> 1..MaxLatency],
            t \in 1..MaxTimeout} : c \in RaceCalls}

\* a call of analyzeEndpoints on a manager that does nothing else
RaceInit ==
  /\ heap = <<>>
  /\ addons = <<>>
  /\ pc = "idle"
  /\ cfg = [discover |-> FALSE, maxDepth |-> 2, refresh |-> "required",
            inputs |-> <<>>, available |-> <<>>]
  /\ available = <<>>
  /\ ignoreUrls = {}
  /\ ignoreIds = {}
  /\ rootAddons = <<>>
  /\ rootIndex = 0
  /\ jobs = <<>>
  /\ errors = {}
  /\ settled = ""
  /\ failed = {}
  /\ tick = 0
  /\ startIds = {}
  /\ nOps = 0
  /\ nLoads = 0
  /\ race \in RaceInputs
  /\ call = NoCall
  /\ probe = NoProbe
  /\ validation = NoValidation
  /\ failover = NoFailover

\* one turn of analyzeEndpoints' loop: start a probe, await the race, take
\* the first result in `pending`, drop the settled probes
RaceIterate ==
  /\ race.pc = "racing"
  /\ RaceRuns(race)
  /\ \E r \in {RaceStart(race)} : race' = RaceTurn(r, RaceWake(r))
  /\ UNCHANGED <<heap, addons, pc, cfg, available, ignoreUrls, ignoreIds, rootAddons,
                 rootIndex, jobs, errors, settled, failed, tick, startIds, nOps, nLoads, call, probe, validation, failover>>

\* the loop has ended: the probes left are cancelled, result is returned
RaceReturn ==
  /\ race.pc = "racing"
  /\ ~RaceRuns(race)
  /\ race' = [race EXCEPT !.pc = "returned",
                          !.cancel = RaceCancel(race),
                          !.ret = IF race.result = 0 THEN Threw
                                  ELSE ProbeOutcome(race, race.result)]
  /\ UNCHANGED <<heap, addons, pc, cfg, available, ignoreUrls, ignoreIds, rootAddons,
                 rootIndex, jobs, errors, settled, failed, tick, startIds, nOps, nLoads, call, probe, validation, failover>>

\* after analyzeEndpoints has returned, the fetch of a probe it left pending
\* settles: the probe stores its result or error, which nothing reads
RaceSettlesLate ==
  /\ race.pc = "returned"
  /\ race.pending # <<>>
  /\ \E wake \in {ProbeDone(race, race.pending[k]) : k \in 1..Len(race.pending)} :
       /\ \A k \in 1..Len(race.pending) : wake <= ProbeDone(race, race.pending[k])
       /\ race' = [race EXCEPT !.now = wake, !.pending = RaceKeep(race, wake)]
  /\ UNCHANGED <<heap, addons, pc, cfg, available, ignoreUrls, ignoreIds, rootAddons,
                 rootIndex, jobs, errors, settled, failed, tick, startIds, nOps, nLoads, call, probe, validation, failover>>

RaceNext == RaceIterate \/ RaceReturn \/ RaceSettlesLate

RaceSpec == RaceInit /\ [][RaceNext]_vars

\* the endpoint lists of the addons called
CallEndpoints == <<UX1, UX2, UZ>>

\* the remote's responses: up to MaxTasks task requests, numbered from 1,
\* then the final response
CallScripts ==
  UNION {{[i \in 1..(n + 1) |-> IF i <= n THEN TaskRequest(i, types[i]) ELSE FinalResponse] :
            types \in [1..n -> TaskTypes]} : n \in 0..MaxTasks}

\* options.taskHandlers: the types handled and those whose handler throws
CallHandlers ==
  {[handlers |-> {"fetch", "toast"}, throwing |-> {}],
   [handlers |-> {"fetch", "toast"}, throwing |-> {"toast"}],
   [handlers |-> {"fetch"}, throwing |-> {}]}

CallInputs ==
  UNION {{[NoCall EXCEPT !.pc = "failover", !.addon = [eps |-> SubSeq(CallEndpoints, 1, n)],
                         !.answer = answer, !.script = script,
                         !.handlers = h.handlers, !.throwing = h.throwing] :
            answer \in [Range(SubSeq(CallEndpoints, 1, n)) -> AnswerKinds],
            script \in CallScripts, h \in CallHandlers} : n \in 0..Len(CallEndpoints)}

\* a call of addon.call on a manager that does nothing else
CallInit ==
  /\ heap = <<>>
  /\ addons = <<>>
  /\ pc = "idle"
  /\ cfg = [discover |-> FALSE, maxDepth |-> 2, refresh |-> "required",
            inputs |-> <<>>, available |-> <<>>]
  /\ available = <<>>
  /\ ignoreUrls = {}
  /\ ignoreIds = {}
  /\ rootAddons = <<>>
  /\ rootIndex = 0
  /\ jobs = <<>>
  /\ errors = {}
  /\ settled = ""
  /\ failed = {}
  /\ tick = 0
  /\ startIds = {}
  /\ nOps = 0
  /\ nLoads = 0
  /\ race = NoRace
  /\ call \in CallInputs
  /\ probe = NoProbe
  /\ validation = NoValidation
  /\ failover = NoFailover

\* one turn of the failover loop of call: the next endpoint answers or fails
CallTryEndpoint ==
  /\ call.pc = "failover"
  /\ call' = CallTry(call, NextEndpoint(call.addon, call.tried))
  /\ UNCHANGED <<heap, addons, pc, cfg, available, ignoreUrls, ignoreIds, rootAddons,
                 rootIndex, jobs, errors, settled, failed, tick, startIds, nOps, nLoads, race, probe, validation, failover>>

\* one turn of the task loop of call
CallHandleResponse ==
  /\ call.pc = "tasks"
  /\ call' = IF call.data.kind # "taskRequest" THEN CallFinish(call)
             ELSE CallRunTask(call, call.data)
  /\ UNCHANGED <<heap, addons, pc, cfg, available, ignoreUrls, ignoreIds, rootAddons,
                 rootIndex, jobs, errors, settled, failed, tick, startIds, nOps, nLoads, race, probe, validation, failover>>

CallNext == CallTryEndpoint \/ CallHandleResponse

CallSpec == CallInit /\ [][CallNext]_vars

\* a probe on a manager that does nothing else
FetchInit ==
  /\ heap = <<>>
  /\ addons = <<>>
  /\ pc = "idle"
  /\ cfg = [discover |-> FALSE, maxDepth |-> 2, refresh |-> "required",
            inputs |-> <<>>, available |-> <<>>]
  /\ available = <<>>
  /\ ignoreUrls = {}
  /\ ignoreIds = {}
  /\ rootAddons = <<>>
  /\ rootIndex = 0
  /\ jobs = <<>>
  /\ errors = {}
  /\ settled = ""
  /\ failed = {}
  /\ tick = 0
  /\ startIds = {}
  /\ nOps = 0
  /\ nLoads = 0
  /\ race = NoRace
  /\ call = NoCall
  /\ probe \in {[NoProbe EXCEPT !.pc = "fetching", !.redirects = t, !.currentUrl = u] :
                   t \in RedirectTables, u \in FetchUrls}
  /\ validation = NoValidation
  /\ failover = NoFailover

\* the request of currentUrl is answered
FetchRequest ==
  /\ probe.pc = "fetching"
  /\ probe.elapsed < EndpointTestTimeout \/ probe.cancel
  /\ probe' = FetchTurn(probe)
  /\ UNCHANGED <<heap, addons, pc, cfg, available, ignoreUrls, ignoreIds, rootAddons,
                 rootIndex, jobs, errors, settled, failed, tick, startIds, nOps, nLoads,
                 race, call, validation, failover>>

\* endpointTestTimeout has passed and the loop is still running
FetchTimesOut ==
  /\ probe.pc = "fetching"
  /\ probe.elapsed = EndpointTestTimeout
  /\ ~probe.cancel
  /\ probe' = FetchTimeout(probe)
  /\ UNCHANGED <<heap, addons, pc, cfg, available, ignoreUrls, ignoreIds, rootAddons,
                 rootIndex, jobs, errors, settled, failed, tick, startIds, nOps, nLoads,
                 race, call, validation, failover>>

FetchNext == FetchRequest \/ FetchTimesOut

FetchSpec == FetchInit /\ [][FetchNext]_vars

\* the payloads validateAction is called with: an object, or for a
\* repository response an array of one or two objects
ValidationInputs ==
  {[NoValidation EXCEPT !.pc = "called", !.engine = e, !.action = a, !.type = t,
                        !.legacyV1 = l, !.copies = c, !.store = st, !.data = Len(st)] :
     e \in {"mediahubmx", "mediaurl"}, a \in {"addon", "catalog", "repository", "directory"},
     t \in {"request", "response"}, l \in BOOLEAN, c \in BOOLEAN,
     st \in {<<Obj(TRUE)>>, <<Obj(TRUE), Arr(<<1>>)>>, <<Obj(TRUE), Obj(FALSE), Arr(<<1, 2>>)>>}}

\* a call of validateAction on a manager that does nothing else; only a
\* repository response is an array
ValidateInit ==
  /\ heap = <<>>
  /\ addons = <<>>
  /\ pc = "idle"
  /\ cfg = [discover |-> FALSE, maxDepth |-> 2, refresh |-> "required",
            inputs |-> <<>>, available |-> <<>>]
  /\ available = <<>>
  /\ ignoreUrls = {}
  /\ ignoreIds = {}
  /\ rootAddons = <<>>
  /\ rootIndex = 0
  /\ jobs = <<>>
  /\ errors = {}
  /\ settled = ""
  /\ failed = {}
  /\ tick = 0
  /\ startIds = {}
  /\ nOps = 0
  /\ nLoads = 0
  /\ race = NoRace
  /\ call = NoCall
  /\ probe = NoProbe
  /\ validation \in {v \in ValidationInputs :
                        (v.store[v.data].kind = "array")
                          <=> (v.action = "repository" /\ v.type = "response")}
  /\ failover = NoFailover

\* const res = applyMigration(engine, action, type, data, callingAddon)
ValidateMigrates ==
  /\ validation.pc = "called"
  /\ \E res \in {applyMigration(validation)} :
       validation' = [validation EXCEPT !.pc = "migrated", !.res = res, !.store = res.store]
  /\ UNCHANGED <<heap, addons, pc, cfg, available, ignoreUrls, ignoreIds, rootAddons,
                 rootIndex, jobs, errors, settled, failed, tick, startIds, nOps, nLoads,
                 race, call, probe, failover>>

\* the rest of validateAction: it returns or throws
ValidateReturns ==
  /\ validation.pc = "migrated"
  /\ validation' = validateAction(validation)
  /\ UNCHANGED <<heap, addons, pc, cfg, available, ignoreUrls, ignoreIds, rootAddons,
                 rootIndex, jobs, errors, settled, failed, tick, startIds, nOps, nLoads,
                 race, call, probe, failover>>

ValidateNext == ValidateMigrates \/ ValidateReturns

ValidateSpec == ValidateInit /\ [][ValidateNext]_vars

\* two calls on an addon with the endpoints of CallEndpoints; which requests
\* fail is fixed per call and endpoint
FailoverInputs ==
  {[NoFailover EXCEPT !.addon = [eps |-> CallEndpoints],
                      !.gen = <<[NoIterator EXCEPT !.pc = "next", !.fails = f1],
                                [NoIterator EXCEPT !.pc = "next", !.fails = f2]>>] :
     f1 \in SUBSET Range(CallEndpoints), f2 \in SUBSET Range(CallEndpoints)}

FailoverInit ==
  /\ heap = <<>>
  /\ addons = <<>>
  /\ pc = "idle"
  /\ cfg = [discover |-> FALSE, maxDepth |-> 2, refresh |-> "required",
            inputs |-> <<>>, available |-> <<>>]
  /\ available = <<>>
  /\ ignoreUrls = {}
  /\ ignoreIds = {}
  /\ rootAddons = <<>>
  /\ rootIndex = 0
  /\ jobs = <<>>
  /\ errors = {}
  /\ settled = ""
  /\ failed = {}
  /\ tick = 0
  /\ startIds = {}
  /\ nOps = 0
  /\ nLoads = 0
  /\ race = NoRace
  /\ call = NoCall
  /\ probe = NoProbe
  /\ validation = NoValidation
  /\ failover \in FailoverInputs

\* call i runs from the top of its failover loop to the await of its fetch
FailoverNext(i) ==
  /\ failover.gen[i].pc = "next"
  /\ failover' = IteratorNext(failover, i)
  /\ UNCHANGED <<heap, addons, pc, cfg, available, ignoreUrls, ignoreIds, rootAddons,
                 rootIndex, jobs, errors, settled, failed, tick, startIds, nOps, nLoads,
                 race, call, probe, validation>>

\* the fetch of call i settles and the call runs on to its next await
FailoverSettles(i) ==
  /\ failover.gen[i].pc = "fetching"
  /\ failover' = IteratorSettles(failover, i)
  /\ UNCHANGED <<heap, addons, pc, cfg, available, ignoreUrls, ignoreIds, rootAddons,
                 rootIndex, jobs, errors, settled, failed, tick, startIds, nOps, nLoads,
                 race, call, probe, validation>>

FailoverStep ==
  \/ \E i \in 1..2 : FailoverNext(i)
  \/ \E i \in 1..2 : FailoverSettles(i)

FailoverSpec == FailoverInit /\ [][FailoverStep]_vars

----------------------------------------------------------------------------
(* Properties *)

\* the i-th entry of the registry
Registered(i) == heap[addons[i]]

\* an instance as it looks to its users: class, properties and infos
Seen(a) == [a EXCEPT !.p = 0]

\* the ids in the registry
Ids == IdsOf(heap, addons)

\* the last call of load has returned normally
Resolved == pc = "idle" /\ settled = "resolved"

\* the ids load recorded as roots: addons resolved directly from an input
RootIds == {rootAddons[i] : i \in 0..(rootIndex - 1)} \ {""}

\* addon a declares a requirement that addon b satisfies
Requires(a, b) ==
  \E r \in 1..Len(a.reqs) : matchesRequirement(b, getConvertedRequirements(a)[r])

\* the registry positions reached from the positions S over requirement edges
RECURSIVE ReachedFrom(_)
ReachedFrom(S) ==
  LET more == {k \in 1..Len(addons) : \E i \in S : Requires(Registered(i), Registered(k))}
  IN IF more \subseteq S THEN S ELSE ReachedFrom(S \cup more)

\* an endpoint at which a working addon descriptor is served
ServesAddon(endpoint) == Net(stripAddonUrl(endpoint)).type = "addon"

\* C1: after any sequence of addAddonClass, addAddonProps, removeAddon, clear
\* and load, no two entries of the registry have the same addon id.
C1_UniqueIds ==
  pc = "idle" =>
    \A i, j \in 1..Len(addons) : i # j => Registered(i).id # Registered(j).id

\* C2: after a non-discovery load every registry entry is reachable from a
\* root over requirement edges, and every root that was resolved is present;
\* so an addon that only a server alias or a legacy repository listed, and
\* that no kept addon requires, is not in the registry.
C2_ReachableFromRoots ==
  (Resolved /\ ~cfg.discover) =>
    /\ ReachedFrom({k \in 1..Len(addons) : Registered(k).id \in RootIds}) = 1..Len(addons)
    /\ RootIds \subseteq Ids

\* C2 happens: a non-discovery load of the legacy repository r, which lists b,
\* has probed b without a failure and returned with r alone in the registry
C2_Witness ==
  /\ Resolved
  /\ ~cfg.discover
  /\ cfg.inputs = <<InUrl(UR)>>
  /\ errors = {}
  /\ startIds = {}
  /\ Ids = {"r"}

\* C3: after a non-discovery load, every requirement of a kept addon of which
\* an endpoint serves a working addon descriptor is satisfied by an addon of
\* the registry, in whatever order the probes and bootstrap calls returned.
C3_RequirementsResolved ==
  (Resolved /\ ~cfg.discover) =>
    \A k \in 1..Len(addons) : \A r \in 1..Len(Registered(k).reqs) :
      (\E e \in Range(getConvertedRequirements(Registered(k))[r]) : ServesAddon(e))
        => \E m \in 1..Len(addons) :
             matchesRequirement(Registered(m), getConvertedRequirements(Registered(k))[r])

\* C4: load never evicts: every id that was in the registry when load started
\* is in the registry when load has returned.
C4_NoEviction ==
  (pc = "idle" /\ nLoads > 0) => startIds \subseteq Ids

\* C5: provided every network call eventually answers or times out, the
\* promise returned by load eventually settles.
C5_LoadSettles == (pc = "loading") ~> (settled # "")

\* C6: every failure of a probe, bootstrap call, repository call or
\* requirement resolution during load has been handed to onError with its
\* context, and load never rejects because of one: it rejects only for a
\* malformed call, an input element that is empty.
C6_FailuresNeverReject ==
  /\ failed \subseteq errors
  /\ settled \in {"", "resolved", "Found an empty input element"}

\* the version getAddon(id) reports in registry s over heap h: that of the
\* first entry with the id (id is in the registry)
VersionOf(h, s, id) ==
  h[s[CHOOSE i \in 1..Len(s) : h[s[i]].id = id /\ \A j \in 1..(i - 1) : h[s[j]].id # id]].ver

\* the ids that have an entry in registry s over heap h, none of them immutable
MutableIds(h, s) ==
  {id \in IdsOf(h, s) : \A i \in 1..Len(s) : h[s[i]].id = id => ~h[s[i]].imm}

\* C7: the version registered under an id that is not immutable never
\* decreases, whichever way and order older and newer descriptors arrive.
C7_VersionNeverDecreases ==
  [][\A id \in MutableIds(heap, addons) \cap MutableIds(heap', addons') :
       VersionOf(heap', addons', id) >= VersionOf(heap, addons, id)]_vars

\* C7 happens: version 2 of x was given before version 1 as inputs of a
\* load, both were bootstrapped, and the registry holds version 2
C7_Witness ==
  /\ Resolved
  /\ cfg.discover
  /\ cfg.inputs = <<InProps(X2), InProps(X1)>>
  /\ failed = {}
  /\ \E i \in 1..Len(addons) : Registered(i).id = "x" /\ Registered(i).ver = 2

\* C8: when a descriptor arrives (here by addAddonProps) for an id that is
\* registered and not immutable, the resulting entry has every endpoint of
\* the existing entry and every endpoint of the incoming descriptor.
C8_EndpointsKept ==
  [][\A props \in ApiProps : AddAddonProps(props) =>
       \A i \in 1..Len(addons) : \A k \in 1..Len(addons') :
         (/\ heap[addons[i]].id = props.id
          /\ heap'[addons'[k]].id = props.id
          /\ ~heap[addons[i]].imm)
           => (Range(heap[addons[i]].eps) \cup Range(props.eps))
                 \subseteq Range(heap'[addons'[k]].eps)]_vars

C10_TwoVersions ==
  (Resolved /\ startIds = {} /\ cfg.inputs = <<InProps(X1), InProps(X2)>>) =>
    /\ Len(addons) = 1
    /\ Registered(1).id = "x"
    /\ Registered(1).ver = 2
    /\ Registered(1).eps = <<UX2, UX1>>

\* the registry as getAddons() shows it: each entry's class, properties, infos
RegistryView(h, s) == [i \in 1..Len(s) |-> Seen(h[s[i]])]

\* C11: registering once more, by addAddonProps or addAddonClass, a descriptor
\* that is registered with the same id, version, properties and endpoints
\* leaves the registry unchanged: same entries in the same order, with equal
\* properties and endpoint lists.
C11_MergeIdempotent ==
  [][/\ \A props \in ApiProps :
          (/\ \E i \in 1..Len(addons) : Seen(Registered(i)) = NewInstance(props, <<>>, FALSE)
           /\ AddAddonProps(props))
            => RegistryView(heap', addons') = RegistryView(heap, addons)
     /\ \A inst \in ApiClasses :
          (/\ \E i \in 1..Len(addons) : Seen(Registered(i)) = inst
           /\ AddAddonClass(inst))
            => RegistryView(heap', addons') = RegistryView(heap, addons)]_vars

\* C11 happens: x version 1 was registered by addAddonProps twice in a row
\* (no other two calls leave x version 1 with its one endpoint alone)
C11_Witness ==
  /\ nOps = 2
  /\ nLoads = 0
  /\ RegistryView(heap, addons) = <<NewInstance(X1, <<>>, FALSE)>>

\* C12: after a discovery load with maxDepth = N, every addon of the registry
\* that is no root (its require-path is not empty) has a require-path of
\* length at most N, also when it was in the registry before the load.
C12_DepthBound ==
  (Resolved /\ cfg.discover) =>
    \A i \in 1..Len(addons) : Len(Registered(i).path) <= cfg.maxDepth

\* the ids of the addons an explicit input of load stands for: the descriptor
\* given, or the addons its endpoints serve
ServedBy(input) ==
  IF input.kind \in {"addonProps", "addonClass"} THEN {input.props.id}
  ELSE LET endpoints == IF input.kind = "userInput" THEN mutateUserInput(input.eps[1])
                        ELSE input.eps
       IN {Net(stripAddonUrl(endpoints[k])).props.id :
             k \in {n \in 1..Len(endpoints) : ServesAddon(endpoints[n])}}

\* C13: a discovery load with maxDepth = 0 (on an empty registry, each input
\* standing for an addon) registers exactly the root addons, the addon of
\* each explicit input whatever its kind, and none of their requirements.
C13_RootsOnly ==
  (/\ Resolved
   /\ cfg.discover
   /\ cfg.maxDepth = 0
   /\ startIds = {}
   /\ \A i \in 1..Len(cfg.inputs) : ServedBy(cfg.inputs[i]) # {})
    => Ids = UNION {ServedBy(cfg.inputs[i]) : i \in 1..Len(cfg.inputs)}

\* the place of the first entry with the id in the registry (0: none)
PlaceOf(id) == FindIndex(Cur(cfg), id)

\* roots keep the relative order of their inputs
RootsInInputOrder ==
  \A i, j \in 0..(rootIndex - 1) :
    (i < j /\ rootAddons[i] \in Ids /\ rootAddons[j] \in Ids /\ rootAddons[i] # rootAddons[j])
      => PlaceOf(rootAddons[i]) < PlaceOf(rootAddons[j])

\* every entry that is no root comes after an entry that requires it
AfterRequiringAddon ==
  \A k \in 1..Len(addons) :
    Registered(k).id \notin RootIds
      => \E m \in 1..(k - 1) : Requires(Registered(m), Registered(k))

\* C14: after a non-discovery load the registry is the depth-first pre-order
\* over requirement edges from the roots in input order: every addon visited
\* is listed once, roots keep the relative order of their inputs, and every
\* non-root addon comes after the addon whose requirement led to it.
C14_PreOrder ==
  (Resolved /\ ~cfg.discover) =>
    /\ \A i, j \in 1..Len(addons) : i # j => addons[i] # addons[j]
    /\ RootsInInputOrder
    /\ AfterRequiringAddon

\* C15: after a discovery load, where no final walk runs, the root addons
\* are in the registry in the relative order of the inputs they came from.
C15_RootOrderDiscovery ==
  (Resolved /\ cfg.discover) => RootsInInputOrder

\* the registry entries collected by the final walk from the roots
Walked == SortRoots(Cur(cfg), <<>>, 0, rootIndex)

\* the load is about to run its final walk (all jobs are done)
AtFinalWalk == pc = "loading" /\ jobs = <<>> /\ ~cfg.discover

\* C16: in a non-discovery load, when the final walk visits a number of
\* addons that differs from the registry size, the registry after the walk
\* has the same entries in the same order as before it.
C16_MismatchKeepsRegistry ==
  (AtFinalWalk /\ Len(Walked) # Len(addons))
    => SortAddons(Cur(cfg)).addons = addons

\* the bootstrap ("addon") action of an addon with endpoints is in flight
Bootstrapping(j) == jobs[j].kind = "addon" /\ jobs[j].eps # <<>>

\* C17: with refresh "none" a load never invokes the bootstrap action of an
\* addon whose descriptor is already known (every addon a bootstrap call is
\* made on comes from the registry, an addonClass or addonProps input, or
\* availableAddonProps).
C17_NoneNeverBootstraps ==
  (pc = "loading" /\ cfg.refresh = "none") => \A j \in 1..Len(jobs) : ~Bootstrapping(j)

\* C18: with refresh "required", within one load the bootstrap action of an
\* addon is invoked once: no two bootstrap calls of one addon id are in
\* flight in the same load (a later requirement matching an addon whose
\* bootstrap was already invoked does not invoke it again).
C18_RequiredBootstrapsOnce ==
  (pc = "loading" /\ cfg.refresh = "required")
    => \A i, j \in 1..Len(jobs) :
         (i < j /\ Bootstrapping(i) /\ Bootstrapping(j))
           => heap[jobs[i].oid].id # heap[jobs[j].oid].id

\* the schedule in which every awaited call returns in the order the calls
\* were started: the first job of `promises` runs to its end, then the next
InOrderEndpoints(st, job, result) == loadViaEndpoints(st, job, result)

InOrderAddon(st, job, result) == loadViaAddon(st, job, result)

InOrderRepository(st, job, result) ==
  IF ~result.ok \/ result.list = <<>> THEN loadViaRepository(st, job, FALSE, <<>>)
  ELSE
    LET st1 == [st EXCEPT !.heap = SetProps(@, job.oid, analyzeAddon(st.heap[job.oid], result.list[1]))]
        answering == SelectSeq(st1.heap[job.oid].eps, LAMBDA e : RepositoryAnswers(e, st1.heap[job.oid].eng))
    IN IF answering = <<>> THEN loadViaRepository(st1, job, FALSE, <<>>)
       ELSE loadViaRepository(st1, job, TRUE, Net(stripAddonUrl(answering[1])).list)

InOrderStep(st, job) ==
  LET done ==
        CASE job.kind = "endpoints" ->
               InOrderEndpoints(st, job, CHOOSE r \in analyzeEndpoints(job.eps, TRUE, "") : TRUE)
          [] job.kind = "addon" ->
               InOrderAddon(st, job, CHOOSE r \in analyzeEndpoints(job.eps, FALSE, job.eng) : TRUE)
          [] OTHER ->
               InOrderRepository(st, job, CHOOSE r \in analyzeEndpoints(job.eps, FALSE, job.eng) : TRUE)
  IN [done EXCEPT !.jobs = Tail(@)]

RECURSIVE InOrderRun(_, _)
InOrderRun(st, fuel) ==
  IF st.jobs = <<>> \/ st.exc # "" \/ fuel = 0 THEN st
  ELSE InOrderRun(InOrderStep(st, st.jobs[1]), fuel - 1)

\* a load of a new manager with the arguments of the current load, run in order
InOrderLoad ==
  InOrderRun(LoadStart([Cur(cfg) EXCEPT !.heap = <<>>, !.addons = <<>>],
                       cfg.available, cfg.inputs), StackLimit)

InOrderIds(st) ==
  IF st.cfg.discover THEN IdsOf(st.heap, st.addons)
  ELSE IdsOf(st.heap, SortAddons(st).addons)

\* C19: for fixed inputs, options and endpoint behaviour, the ids a load of
\* a new manager leaves in the registry do not depend on the interleaving of
\* the probes and bootstrap calls: they are the ids left by the schedule in
\* which the calls return in the order they were started.
C19_SameIdsEveryInterleaving ==
  (Resolved /\ startIds = {})
    => \A st \in {InOrderLoad} :
         (st.jobs = <<>> /\ st.exc = "") => Ids = InOrderIds(st)

\* the probes of the followed call that were started and can succeed
Succeeding == {i \in 1..(race.next - 1) : ProbeOutcome(race, i).ok}

\* C20: analyzeEndpoints returns the classification of the probe that
\* completes successfully first in time, whatever the order the probes were
\* started in; probes that complete later are ignored.
C20_FirstSuccessWins ==
  (race.pc = "returned" /\ race.ret.ok)
    => \E i \in Succeeding :
         /\ race.ret = ProbeOutcome(race, i)
         /\ \A k \in Succeeding : ProbeDone(race, i) <= ProbeDone(race, k)

\* a probe started later answered earlier than a succeeding probe started
\* before it, and its result was returned
C20_Witness ==
  /\ race.pc = "returned"
  /\ race.result # 0
  /\ \E i \in Succeeding : i < race.result /\ ProbeDone(race, i) > ProbeDone(race, race.result)

\* the probes of the followed call that answer in time with an addon or
\* server response
CanSucceed == {i \in 1..Len(race.todo) : ProbeOutcome(race, i).ok}

\* C21: analyzeEndpoints returns null exactly when no probe produces a
\* successful classification; it returns null only after every probe URL
\* was started and has failed (a failed probe stops neither its siblings
\* nor the queued probes).
C21_NullIffNoSuccess ==
  race.pc = "returned"
    => /\ (race.ret = Threw) <=> (CanSucceed = {})
       /\ race.ret = Threw => (race.next > Len(race.todo) /\ race.pending = <<>>)

\* null was returned after several probes failed, one of them by timeout
\* and one by an error before the timeout
C21_Witness ==
  /\ race.pc = "returned"
  /\ race.ret = Threw
  /\ \E i, j \in 1..Len(race.todo) :
       race.lat[i] > EndpointTestTimeout /\ race.lat[j] < EndpointTestTimeout

\* every endpoint of the list answers with a server alias
OnlyAliases(endpoints) ==
  endpoints # <<>> /\ \A k \in 1..Len(endpoints) : Net(stripAddonUrl(endpoints[k])).type = "server"

\* the results of an analysis that was answered by a server alias
AliasResults(endpoints) ==
  {r \in analyzeEndpoints(endpoints, TRUE, "") :
     r.ok /\ r.list # <<>> /\ \A k \in 1..Len(r.list) : r.list[k].isServer}

\* C22: a server alias is never adopted as an addon's descriptor by the
\* bootstrap action: the bootstrap call of an addon whose endpoints answer
\* with an alias fails like any failing call and leaves the registry as it
\* was.  In the analysis of loadViaEndpoints the alias comes back as
\* candidate endpoints without a descriptor, and each of them is probed (it
\* is in `ignore`, as every endpoint a probe was started for) when the job
\* ends.
C22_AliasNeverAdopted ==
  [][\A j \in 1..Len(jobs) :
       /\ (jobs[j].kind = "addon" /\ OnlyAliases(jobs[j].eps) /\ AddonCalled(j))
            => /\ Context("addon", heap[jobs[j].oid].id, <<>>) \in failed'
               /\ RegistryView(heap', addons') = RegistryView(heap, addons)
       /\ \A r \in AliasResults(jobs[j].eps) :
            (/\ jobs[j].kind = "endpoints"
             /\ JobDone(loadViaEndpoints(Cur(cfg), jobs[j], r), j, {})
             /\ pc' = "loading")
              => \A k \in 1..Len(r.list) :
                   /\ r.list[k].props = NoProps
                   /\ r.list[k].endpoints # <<>>
                   /\ \A e \in Range(r.list[k].endpoints) : e \in ignoreUrls']_vars

\* the probe of the alias s has returned and the addons it lists are being
\* probed as speculative candidates
C22_Witness ==
  /\ pc = "loading"
  /\ cfg.inputs = <<InUrl(US)>>
  /\ \E j \in 1..Len(jobs) : jobs[j].kind = "endpoints" /\ ~jobs[j].known

\* the endpoints that failed during the followed call
FailedEndpoints == {call.warnings[k].url : k \in {n \in 1..Len(call.warnings) :
                                                   call.warnings[n].error # "Failed executing task"}}

\* the followed call found an endpoint that answered
CallSucceeded == call.pc \in {"tasks", "returned"} /\ call.answer[call.url] = "ok"

\* C23: ordered failover: every endpoint that fails is moved to the end of
\* the endpoint list before the next one is tried, so once an endpoint has
\* answered it precedes, in the addon's endpoint list, every endpoint that
\* failed during the call.
C23_AnsweringBeforeFailed ==
  CallSucceeded
    => \A e \in FailedEndpoints :
         IndexOf(call.addon.eps, call.url) < IndexOf(call.addon.eps, e)

\* an endpoint answered after two others had failed
C23_Witness ==
  CallSucceeded /\ Cardinality(FailedEndpoints) = 2

\* every endpoint of the called addon fails (no response, or a body that is
\* not JSON)
AllEndpointsFail ==
  call.addon.eps # <<>> /\ \A e \in Range(call.addon.eps) : FetchThrows(call.answer[e])

\* each endpoint of the called addon was tried, and failed, exactly once
TriedEachOnce ==
  /\ call.tried = Range(call.addon.eps)
  /\ Len(call.warnings) = Len(call.addon.eps)
  /\ \A e \in Range(call.addon.eps) : \E k \in 1..Len(call.warnings) : call.warnings[k].url = e

\* C24: when every endpoint of the addon fails, call has tried each endpoint
\* exactly once and then raises the error "No working endpoint found".
C24_ExhaustedRaisesNoWorkingEndpoint ==
  (call.pc = "threw" /\ AllEndpointsFail)
    => (TriedEachOnce /\ call.err = "No working endpoint found")

\* C25: an endpoint that answers with a non-2xx status counts as a failure
\* of that endpoint, like a timeout or a connection failure: the error goes
\* to the warning callback and the call goes on to the next endpoint; the
\* response the call works on never comes from such an endpoint.
C25_Non2xxIsFailure ==
  \A e \in call.tried :
    call.answer[e] # "ok"
      => /\ \E k \in 1..Len(call.warnings) : call.warnings[k].url = e
         /\ call.pc \in {"tasks", "returned"} => call.url # e

\* the task requests of the remote's script, by position
TaskIds == {i \in 1..Len(call.script) : call.script[i].kind = "taskRequest"}

\* the ids of the first n task requests whose type has a handler, in order
HandledUpTo(n) ==
  SelectSeq([i \in 1..n |-> call.script[i].id],
            LAMBDA id : call.script[id].type \in call.handlers)

\* C26: when the remote answers with task requests followed by a final
\* response, call invokes the handler registered for each task's type
\* exactly once and in the order received, posts each task response to the
\* URL the call resolved, and returns the final response; it never returns
\* while the latest response is a task request.
C26_TaskProtocol ==
  (call.pc \in {"tasks", "returned"} /\ call.answer[call.url] = "ok")
    => /\ call.invoked = HandledUpTo(call.pos - 1)
       /\ Len(call.posts) = call.pos - 1
       /\ \A k \in 1..Len(call.posts) :
            call.posts[k].url = call.url /\ call.posts[k].id = call.script[k].id
       /\ call.pc = "returned"
            => /\ call.ret = call.script[Len(call.script)]
               /\ call.ret.kind # "taskRequest"
               /\ call.pos = Len(call.script)

\* the call returned the final response after two task requests, each
\* handled by its handler
C26_Witness ==
  /\ call.pc = "returned"
  /\ Len(call.script) = 3
  /\ call.invoked = <<1, 2>>
  /\ call.script[1].type # call.script[2].type

\* a 2xx endpoint answered the followed call
AnsweredOk == call.url # <<>> /\ call.answer[call.url] = "ok"

\* the k-th task request has no handler, or its handler throws
TaskFails(k) ==
  call.script[k].type \notin call.handlers \/ call.script[k].type \in call.throwing

EngineOf(h, s, id) == h[s[CHOOSE i \in 1..Len(s) : h[s[i]].id = id /\ \A k \in 1..(i - 1) : h[s[k]].id # id]].eng

\* C28: the engine dialect of an addon's descriptor is sticky: once the
\* engine of a registered addon is set, no later step changes it while the
\* addon stays registered (so that a later bootstrap analysis probes that
\* dialect only).
C28_EngineSticky ==
  [][\A id \in IdsOf(heap, addons) \cap IdsOf(heap', addons') :
       EngineOf(heap, addons, id) # ""
         => EngineOf(heap', addons', id) = EngineOf(heap, addons, id)]_vars

\* the endpoint answers the bootstrap request with the descriptor of addon id
Serves(endpoint, id) ==
  Net(stripAddonUrl(endpoint)).type = "addon" /\ Net(stripAddonUrl(endpoint)).props.id = id

\* C29: after a successful bootstrap call or endpoint analysis the first
\* entry of the addon's endpoint list is the endpoint that answered; the
\* endpoints that did not answer come after it.  So, after a load, every
\* registered addon that has an answering endpoint has one as its first.
C29_AnsweringEndpointFirst ==
  Resolved
    => \A i \in 1..Len(addons) :
         (\E k \in 1..Len(Registered(i).eps) : Serves(Registered(i).eps[k], Registered(i).id))
           => Serves(Registered(i).eps[1], Registered(i).id)

\* the (addon id, requirement) pairs of the registry whose requirement no
\* registered addon matches
UnsatisfiedPairs ==
  UNION {{[addonId |-> Registered(i).id, req |-> getConvertedRequirements(Registered(i))[r]] :
            r \in {r \in 1..Len(Registered(i).reqs) :
                     \A k \in 1..Len(addons) :
                       ~matchesRequirement(Registered(k), getConvertedRequirements(Registered(i))[r])}} :
         i \in 1..Len(addons)}

\* C30: whenever the manager is at rest, getUnresolvedRequirements returns
\* exactly the (addon id, requirement) pairs of registered addons whose
\* requirement matches no registered addon: a satisfied requirement is never
\* reported and an unsatisfied one always is.
C30_UnresolvedExact ==
  pc = "idle"
    => Range(getUnresolvedRequirements([heap |-> heap, addons |-> addons])) = UnsatisfiedPairs

\* every unsatisfied requirement is among the pairs reported
C30_UnsatisfiedReported ==
  pc = "idle"
    => UnsatisfiedPairs \subseteq Range(getUnresolvedRequirements([heap |-> heap, addons |-> addons]))

\* C31: a requirement given as a path is resolved below each endpoint of the
\* declaring addon (endpoint https://h/g, requirement "/k": https://h/g/k),
\* and a non-discovery load of g alone, with k served there, yields the
\* registry [g, k] in that order.
C31_PathBelowEndpoint ==
  /\ \A i \in 1..Len(addons) : \A r \in 1..Len(Registered(i).reqs) :
       ~Registered(i).reqs[r].abs
         => \A k \in 1..Len(Registered(i).eps) :
              Includes(getConvertedRequirements(Registered(i))[r],
                       stripAddonUrl(Registered(i).eps[k]) \o Registered(i).reqs[r].segs)
  /\ (Resolved /\ ~cfg.discover /\ cfg.inputs = <<InUrl(UG)>> /\ nOps = 0)
       => [i \in 1..Len(addons) |-> Registered(i).id] = <<"g", "k">>

\* the call of load holds an input element with none of the five fields
MalformedCall == nLoads > 0 /\ \E i \in 1..Len(cfg.inputs) : cfg.inputs[i] = InEmpty

\* C32: a load whose inputs hold an empty element rejects with "Found an
\* empty input element", and a load that rejected for that reason has no
\* effect: none of its jobs is still running and the registry holds the
\* addons it held before the call.
C32_MalformedCallHasNoEffect ==
  /\ MalformedCall => settled = "Found an empty input element"
  /\ settled = "Found an empty input element"
       => /\ jobs = <<>>
          /\ IdsOf(heap, addons) = startIds

\* no entry of the path occurs twice
NoRepeat(path) == \A m, n \in 1..Len(path) : path[m] = path[n] => m = n

\* C33: an addon is never re-entered along a require-path that already holds
\* its id: no pending bootstrap job is for an addon whose id occurs in the
\* requirePath the job was given, and no registered addon's requirePath holds
\* its own id or any id twice.
C33_CycleSafe ==
  /\ \A j \in 1..Len(jobs) :
       jobs[j].kind = "addon" => ~Includes(jobs[j].path, heap[jobs[j].oid].id)
  /\ \A i \in 1..Len(addons) :
       /\ ~Includes(Registered(i).path, Registered(i).id)
       /\ NoRepeat(Registered(i).path)

\* C34: when load has resolved, no job spawned during that load (probe,
\* bootstrap or repository call, spawned by load or from within a running
\* job) is still pending; a job acts on the registry only while it is
\* pending, so none changes the registry after load has resolved.
C34_FanInBarrier == Resolved => jobs = <<>>

\* a load has resolved that registered an addon found by a job which a running
\* job had spawned (an addon with a non-empty requirePath, new in this load)
C34_Witness ==
  /\ Resolved
  /\ \E i \in 1..Len(addons) :
       Registered(i).path # <<>> /\ Registered(i).id \notin startIds

\* the probes of the followed call that were started and have not settled
Unfinished == {i \in 1..(race.next - 1) : ProbeDone(race, i) > race.now}

\* C35: when analyzeEndpoints has returned with a result the race has
\* stopped: every probe that was started and had not finished is marked
\* cancelled, and from then on no queued probe is started and the value
\* returned never changes, also when a cancelled probe settles later.
C35_RaceStops ==
  [][/\ (race'.pc = "returned" /\ race'.ret.ok) => Unfinished' \subseteq race'.cancel
     /\ (race.pc = "returned" /\ race.ret.ok)
          => /\ race'.next = race.next
             /\ race'.ret = race.ret
             /\ race'.result = race.result
             /\ race'.cancel = race.cancel]_vars

\* analyzeEndpoints returned a result while a probe that would succeed was
\* in flight and another was still queued; the cancelled probe has settled
\* since, and the queued one was never started
C35_Witness ==
  /\ race.pc = "returned"
  /\ race.ret.ok
  /\ race.next <= Len(race.todo)
  /\ \E i \in race.cancel :
       /\ ProbeOutcome(race, i).ok
       /\ ProbeDone(race, i) <= race.now
       /\ i # race.result

\* probe i was started when the stagger timer set at the start of probe i - 1
\* ran out
TimerElapsed(i) == race.started[i] = race.started[i - 1] + race.timeout

\* probe i was started at the moment a probe in flight settled
SettledAt(i) == \E k \in 1..(i - 1) : ProbeDone(race, k) = race.started[i]

\* the probes in flight when probe i was started
InFlightAt(i) == {k \in 1..(i - 1) : ProbeDone(race, k) > race.started[i]}

\* C36 as stated: a queued probe is started only after the stagger timer of
\* the previous probe has elapsed or when fewer probes are in flight than a
\* concurrency target (a target that restrains any start at all is at most
\* the number of probes less two).
C36_ConcurrencyTarget ==
  Len(race.todo) > 2
    => \E target \in 1..(Len(race.todo) - 2) :
         \A i \in 2..Len(race.started) :
           TimerElapsed(i) \/ Cardinality(InFlightAt(i)) < target

\* C36, amended: a queued probe is started only when the stagger timer of
\* the previous probe has elapsed or a probe in flight has settled, and one
\* probe at most is started per such event.
C36_StaggeredStart ==
  \A i \in 2..Len(race.started) :
    /\ race.started[i] > race.started[i - 1]
    /\ TimerElapsed(i) \/ SettledAt(i)

\* one probe was started by the stagger timer and a later one, before its
\* timer ran out, because a probe settled while another was still in flight
C36_Witness ==
  \E i, j \in 2..Len(race.started) :
    /\ i < j
    /\ TimerElapsed(i)
    /\ ~TimerElapsed(j) /\ SettledAt(j)
    /\ InFlightAt(j) # {}

\* C37: a probe that follows redirects stops as soon as a redirect points to
\* a URL it has already visited: within one probe no URL is requested twice,
\* and a redirect cycle is ended by the loop detection, never by the probe
\* timeout.
C37_RedirectLoopDetected ==
  /\ NoRepeat(probe.requested)
  /\ probe.outcome # "Timeout"

\* the value of a payload: an object's fields, an array's element values
Deref(store, ref) ==
  IF store[ref].kind = "array"
  THEN [k \in 1..Len(store[ref].items) |-> store[store[ref].items[k]]]
  ELSE <<store[ref]>>

\* C38: validateAction returns the payload its migration produced: as it is
\* when the migration opted out of validation, and otherwise (also when
\* there is no migration, which leaves the input payload) as the validator
\* returns it; it raises exactly when validation is due and the validator is
\* missing.
C38_ReturnsMigratedPayload ==
  /\ validation.pc = "returned"
       => /\ Deref(validation.store, validation.out.data)
               = [k \in 1..Len(Deref(validation.store, validation.res.data)) |->
                    [Deref(validation.store, validation.res.data)[k] EXCEPT
                       !.checked = @ \/ validation.res.validate]]
          /\ validation.out.action = validation.res.action
  /\ validation.pc \in {"returned", "threw"}
       => ((validation.pc = "threw")
             <=> (validation.res.validate /\ ~HasValidator(validation.action, validation.type)))

\* C39: under every interleaving of two concurrent calls on one addon the
\* endpoint list stays a permutation of what it was, and each call tries
\* each endpoint at most once and has tried all of them when it gives up.
C39_FailoverKeepsEndpoints ==
  failover.gen[1].pc # "off"
    => /\ Len(failover.addon.eps) = Len(CallEndpoints)
       /\ Range(failover.addon.eps) = Range(CallEndpoints)
       /\ \A i \in 1..2 :
            /\ NoRepeat(failover.gen[i].tried)
            /\ failover.gen[i].pc = "threw"
                 => Range(failover.gen[i].tried) = Range(CallEndpoints)

\* one call gave up and the other succeeded, after the list was rotated
\* while both were running: the second call began with another endpoint
\* than the list had at first
C39_Witness ==
  /\ failover.gen[1].pc = "threw"
  /\ failover.gen[2].pc = "done"
  /\ failover.addon.eps # CallEndpoints
  /\ failover.gen[2].tried[1] # CallEndpoints[1]
  /\ Len(failover.gen[2].tried) > 1

\* C40: for any two registered addons a and b, a.hasRequirement(b) is true
\* exactly when b matches one of a's converted requirements, i.e. when one
\* of them contains one of b's endpoints.
C40_HasRequirementIffMatches ==
  \A i, k \in 1..Len(addons) :
    hasRequirement(Registered(i), Registered(k)) <=> Requires(Registered(i), Registered(k))

====
